---- MODULE Spec2Model ----
(***************************************************************************)
(* Model of the hierarchical layout-code parser of FigCombo                *)
(* (src/web/layout_parser.py): LayoutNode / LayoutTree serialisation,      *)
(* LayoutCodeParser.parse with its extractors, grid parser and tree        *)
(* builder, and LayoutTreeValidator.validate.                              *)
(*                                                                         *)
(* Strings are sequences of one-character strings.  An optional value      *)
(* (Python None) is the empty tuple, a present value v is <<v>>.           *)
(* Floats are held exactly, in hundredths.                                 *)
(***************************************************************************)
EXTENDS Integers, Sequences, FiniteSets, TLC

(***************************************************************************)
(* Characters                                                              *)
(***************************************************************************)

\* printable ASCII in code-point order, ASCII[i] has code point 31 + i
ASCII ==
  << " ", "!", "\"", "#", "$", "%", "&", "'", "(", ")", "*", "+", ",", "-", ".", "/",
     "0", "1", "2", "3", "4", "5", "6", "7", "8", "9", ":", ";", "<", "=", ">", "?",
     "@", "A", "B", "C", "D", "E", "F", "G", "H", "I", "J", "K", "L", "M", "N", "O",
     "P", "Q", "R", "S", "T", "U", "V", "W", "X", "Y", "Z", "[", "\\", "]", "^", "_",
     "BACKTICK", "a", "b", "c", "d", "e", "f", "g", "h", "i", "j", "k", "l", "m", "n", "o",
     "p", "q", "r", "s", "t", "u", "v", "w", "x", "y", "z", "{", "|", "}", "~" >>

\* the private-use characters chr(0xE000 + k), k = 0 .. 11, used as section placeholders
PrivateUse ==
  << "U+E000", "U+E001", "U+E002", "U+E003", "U+E004", "U+E005",
     "U+E006", "U+E007", "U+E008", "U+E009", "U+E00A", "U+E00B" >>

chr(n) == IF n >= 57344 THEN PrivateUse[n - 57344 + 1] ELSE ASCII[n - 31]

Digits == {ASCII[i] : i \in 17..26}
UpperLetters == {ASCII[i] : i \in 34..59}
LowerLetters == {ASCII[i] : i \in 66..91}
Letters == UpperLetters \cup LowerLetters

ord(ch) ==
  IF ch = "\n" THEN 10
  ELSE IF \E k \in 1..Len(PrivateUse) : PrivateUse[k] = ch
       THEN 57343 + (CHOOSE k \in 1..Len(PrivateUse) : PrivateUse[k] = ch)
       ELSE 31 + (CHOOSE i \in 1..Len(ASCII) : ASCII[i] = ch)

isalpha(ch) == ch \in Letters
isalnum(ch) == ch \in Letters \/ ch \in Digits
isspace(ch) == ch = " " \/ ch = "\n"

upper_char(ch) == IF ch \in LowerLetters THEN chr(ord(ch) - 32) ELSE ch
lower_char(ch) == IF ch \in UpperLetters THEN chr(ord(ch) + 32) ELSE ch

(***************************************************************************)
(* Strings                                                                 *)
(***************************************************************************)

Max(S) == CHOOSE m \in S : \A n \in S : n <= m
Min(S) == CHOOSE m \in S : \A n \in S : m <= n

\* the characters of a string literal
chars(s) == [i \in 1..Len(s) |-> SubSeq(s, i, i)]

upper(s) == [i \in 1..Len(s) |-> upper_char(s[i])]

\* str.title(): a cased letter is upper-cased after an uncased character, else lower-cased
title(s) ==
  [i \in 1..Len(s) |->
     IF i = 1 \/ ~isalpha(s[i - 1]) THEN upper_char(s[i]) ELSE lower_char(s[i])]

replace_char(s, old, new) == [i \in 1..Len(s) |-> IF s[i] = old THEN new ELSE s[i]]

\* str.strip(): from the first to the last character that is not whitespace
strip(s) ==
  LET kept == {i \in 1..Len(s) : ~isspace(s[i])}
  IN  IF kept = {} THEN <<>> ELSE SubSeq(s, Min(kept), Max(kept))

\* str.split(sep) for a one-character separator
RECURSIVE split(_, _)
split(s, sep) ==
  IF \A i \in 1..Len(s) : s[i] /= sep
  THEN <<s>>
  ELSE LET k == CHOOSE i \in 1..Len(s) : s[i] = sep /\ \A j \in 1..(i - 1) : s[j] /= sep
       IN  <<SubSeq(s, 1, k - 1)>> \o split(SubSeq(s, k + 1, Len(s)), sep)

ljust(s, width) == s \o [i \in 1..(width - Len(s)) |-> " "]

\* str(n) for a natural number
RECURSIVE str(_)
str(n) == IF n < 10 THEN <<chr(48 + n)>> ELSE str(n \div 10) \o <<chr(48 + (n % 10))>>

\* int(s) for a digit string
RECURSIVE int(_)
int(s) ==
  IF s = <<>> THEN 0 ELSE 10 * int(SubSeq(s, 1, Len(s) - 1)) + (ord(s[Len(s)]) - 48)


(***************************************************************************)
(* LayoutNode                                                              *)
(***************************************************************************)

None == <<>>
Some(v) == <<v>>
EmptyDict == [k \in {} |-> 0]

\* the enumeration NodeType: member name |-> value
NodeType ==
  [ROOT |-> "root", SECTION |-> "section", PANEL |-> "panel", SUB_PANEL |-> "sub_panel",
   INSET |-> "inset", GRID |-> "grid"]

\* NodeType(value): the member with that value
NodeType_of(value) == CHOOSE member \in DOMAIN NodeType : NodeType[member] = value

LayoutNode(node_type, id, label, row, col, rowspan, colspan, children, metadata, parent) ==
  [node_type |-> node_type, id |-> id, label |-> label, row |-> row, col |-> col,
   rowspan |-> rowspan, colspan |-> colspan, children |-> children,
   metadata |-> metadata, parent |-> parent]

LayoutSyntaxError(kind, args) == [type |-> "LayoutSyntaxError", kind |-> kind, args |-> args]
LayoutValidationError(errors) ==
  [type |-> "LayoutValidationError", kind |-> "validation_failed", args |-> errors]

(***************************************************************************)
(* Grid parser                                                             *)
(***************************************************************************)

_clean_grid_code(code) ==
  LET replaced == replace_char(code, "/", "\n")
      raw == split(replaced, "\n")
      lines == [i \in 1..Len(SelectSeq(raw, LAMBDA l : strip(l) /= <<>>)) |->
                  strip(SelectSeq(raw, LAMBDA l : strip(l) /= <<>>)[i])]
  IN  IF lines = <<>> THEN <<>>
      ELSE LET max_len == Max({Len(lines[i]) : i \in 1..Len(lines)})
           IN  [i \in 1..Len(lines) |-> ljust(lines[i], max_len)]

RECURSIVE sorted(_)
sorted(S) ==
  IF S = {} THEN <<>>
  ELSE LET m == CHOOSE c \in S : \A d \in S : ord(c) <= ord(d)
       IN  <<m>> \o sorted(S \ {m})

\* the cells (0-based row, column) of the cleaned grid that hold the label
positions_of(lines, label) ==
  {rc \in (0..(Len(lines) - 1)) \X (0..(Len(lines[1]) - 1)) :
     lines[rc[1] + 1][rc[2] + 1] = label}

grid_labels(lines, section_map) ==
  {ch \in {lines[r][c] : r \in 1..Len(lines), c \in 1..Len(lines[1])} :
     ch \notin {" ", "."} /\ (isalnum(ch) \/ ch \in DOMAIN section_map)}

expected_cells(positions) ==
  (Max({p[1] : p \in positions}) - Min({p[1] : p \in positions}) + 1)
  * (Max({p[2] : p \in positions}) - Min({p[2] : p \in positions}) + 1)

\* a Panel whose spans are the differences of the extreme rows and columns
new_panel_node_without_plus_one(label, positions) ==
  LayoutNode("PANEL", <<label>>, Some(upper(<<label>>)),
             Some(Min({p[1] : p \in positions})), Some(Min({p[2] : p \in positions})),
             Max({p[1] : p \in positions}) - Min({p[1] : p \in positions}),
             Max({p[2] : p \in positions}) - Min({p[2] : p \in positions}),
             <<>>, EmptyDict, None)

new_panel_node(label, positions) ==
  LayoutNode("PANEL", <<label>>, Some(upper(<<label>>)),
             Some(Min({p[1] : p \in positions})), Some(Min({p[2] : p \in positions})),
             Max({p[1] : p \in positions}) - Min({p[1] : p \in positions}) + 1,
             Max({p[2] : p \in positions}) - Min({p[2] : p \in positions}) + 1,
             <<>>, EmptyDict, None)

ratios(n) == [i \in 1..n |-> 100]

\* the labels in sorted order that do not fill their bounding rectangle
bad_labels(lines, labels) ==
  SelectSeq(labels, LAMBDA label :
    Cardinality(positions_of(lines, label)) /= expected_cells(positions_of(lines, label)))

not_rectangle(label, positions) ==
  LayoutSyntaxError("not_rectangle",
    << <<label>>, str(Cardinality(positions)), str(expected_cells(positions)) >>)

\* the loop over sorted(labels) and the GRID node
_parse_grid_labels(lines, labels) ==
  IF bad_labels(lines, labels) /= <<>>
  THEN [error |-> Some(not_rectangle(Head(bad_labels(lines, labels)),
                         positions_of(lines, Head(bad_labels(lines, labels))))),
        node |-> None]
  ELSE [error |-> None,
        node |-> Some(LayoutNode("GRID", chars("grid"), None, None, None, 1, 1,
                   [i \in 1..Len(labels) |->
                      new_panel_node(labels[i], positions_of(lines, labels[i]))],
                   [nrows |-> Len(lines), ncols |-> Len(lines[1]),
                    row_ratios |-> ratios(Len(lines)), col_ratios |-> ratios(Len(lines[1]))],
                   None))]

\* a grid parser that makes a grid without rows of a code without lines
_parse_grid_lines_allowing_none(lines, section_map) ==
  IF lines = <<>>
  THEN [error |-> None,
        node |-> Some(LayoutNode("GRID", chars("grid"), None, None, None, 1, 1, <<>>,
                   [nrows |-> 0, ncols |-> 0, row_ratios |-> <<>>, col_ratios |-> <<>>],
                   None))]
  ELSE IF Len(lines[1]) = 0
  THEN [error |-> Some(LayoutSyntaxError("zero_columns", <<>>)), node |-> None]
  ELSE _parse_grid_labels(lines, sorted(grid_labels(lines, section_map)))

\* the grid of the cleaned lines
_parse_grid_lines(lines, section_map) ==
  IF lines = <<>>
  THEN [error |-> Some(LayoutSyntaxError("empty_grid", <<>>)), node |-> None]
  ELSE IF Len(lines[1]) = 0
  THEN [error |-> Some(LayoutSyntaxError("zero_columns", <<>>)), node |-> None]
  ELSE _parse_grid_labels(lines, sorted(grid_labels(lines, section_map)))

\* returns [error |-> None or Some(e), node |-> the GRID node]
_parse_grid(code, section_map) == _parse_grid_lines(_clean_grid_code(code), section_map)

(***************************************************************************)
(* Ordered dictionaries (Python dict): a sequence of records [k, v] with   *)
(* pairwise distinct keys, in insertion order                              *)
(***************************************************************************)

dict_has(d, key) == \E i \in 1..Len(d) : d[i].k = key
dict_get(d, key) == d[CHOOSE i \in 1..Len(d) : d[i].k = key].v
dict_set(d, key, val) ==
  IF dict_has(d, key)
  THEN [i \in 1..Len(d) |-> IF d[i].k = key THEN [k |-> key, v |-> val] ELSE d[i]]
  ELSE Append(d, [k |-> key, v |-> val])

\* str.find(ch, start) on 1-based positions; 0 when absent
find(code, ch, start) ==
  IF \E k \in start..Len(code) : code[k] = ch
  THEN Min({k \in start..Len(code) : code[k] = ch})
  ELSE 0

(***************************************************************************)
(* Section extractor                                                       *)
(***************************************************************************)

\* the inner while loop, started at j with bracket_count 1: returns [j, bracket_count],
\* j the position after the last character read
match_bracket(code, start) ==
  LET depth_after(k) ==
        1 + Cardinality({q \in start..k : code[q] = "["})
          - Cardinality({q \in start..k : code[q] = "]"})
      closes == {k \in start..Len(code) : depth_after(k) = 0}
  IN  IF closes /= {}
      THEN [j |-> Min(closes) + 1, bracket_count |-> 0]
      ELSE [j |-> Max({start, Len(code) + 1}), bracket_count |-> depth_after(Len(code))]

section_name_end(code, i) == find(code, ":", i)

\* the test the outer loop makes at position i: does a section start here
section_opens_at(code, i) ==
  LET colon_idx == section_name_end(code, i)
      name == SubSeq(code, i + 1, colon_idx - 1)
  IN  /\ code[i] = "["
      /\ colon_idx /= 0
      /\ name /= <<>> /\ isalpha(name[1])
      /\ match_bracket(code, colon_idx + 1).bracket_count = 0

\* the outer while loop from position i on; the positions where no section starts
\* only advance i
RECURSIVE _extract_sections_loop(_, _, _, _)
_extract_sections_loop(code, i, sections, section_count) ==
  LET opens == {k \in i..Len(code) : section_opens_at(code, k)}
      at == Min(opens)
      colon_idx == section_name_end(code, at)
      m == match_bracket(code, colon_idx + 1)
  IN  IF opens = {} THEN [code |-> code, sections |-> sections]
      ELSE _extract_sections_loop(
             SubSeq(code, 1, at - 1) \o <<chr(57344 + section_count)>>
               \o SubSeq(code, m.j, Len(code)),
             at + 1,
             dict_set(sections, SubSeq(code, at + 1, colon_idx - 1),
                      SubSeq(code, colon_idx + 1, m.j - 2)),
             section_count + 1)

section_map_of(sections) ==
  [ch \in {chr(57344 + i - 1) : i \in 1..Len(sections)} |->
     sections[CHOOSE i \in 1..Len(sections) : chr(57344 + i - 1) = ch].k]

\* returns [code, sections, section_map]; section_map is what the call stores
\* in self._parse_context['section_map']
_extract_sections(code) ==
  LET r == _extract_sections_loop(code, 1, <<>>, 0)
  IN  [code |-> r.code, sections |-> r.sections, section_map |-> section_map_of(r.sections)]

(***************************************************************************)
(* Sub-panel extractor                                                     *)
(***************************************************************************)

\* GRID_SIZE_PATTERN.match: digits 'x' digits, '$' also matching before one final newline
GRID_SIZE_PATTERN(items_str) ==
  LET s == IF items_str /= <<>> /\ items_str[Len(items_str)] = "\n"
           THEN SubSeq(items_str, 1, Len(items_str) - 1) ELSE items_str
      x == find(s, "x", 1)
  IN  IF x > 1 /\ x < Len(s)
         /\ \A i \in 1..Len(s) : i /= x => s[i] \in Digits
      THEN [matched |-> TRUE, rows |-> SubSeq(s, 1, x - 1), cols |-> SubSeq(s, x + 1, Len(s))]
      ELSE [matched |-> FALSE, rows |-> <<>>, cols |-> <<>>]

process_bracket(panel, items_str) ==
  LET grid_match == GRID_SIZE_PATTERN(items_str)
      rows == int(grid_match.rows)
      cols == int(grid_match.cols)
      parts == split(items_str, ",")
      items == [i \in 1..Len(parts) |-> strip(parts[i])]
  IN  IF grid_match.matched
      THEN [type |-> "grid", nrows |-> rows, ncols |-> cols,
            labels |-> [i \in 1..(rows * cols) |-> <<panel, ".">> \o str(i - 1)],
            items |-> <<>>]
      ELSE [type |-> "list", nrows |-> 0, ncols |-> 0,
            labels |-> [i \in 1..Len(items) |-> <<panel, ".">> \o items[i]],
            items |-> items]

\* SUB_PANEL_BRACKET_PATTERN at position i: the position of the closing ']', or 0
SUB_PANEL_BRACKET_PATTERN(code, i) ==
  IF i + 2 <= Len(code) /\ code[i] \in Letters /\ code[i + 1] = "[" /\ code[i + 2] /= "]"
  THEN find(code, "]", i + 2)
  ELSE 0

\* re.sub over the non-overlapping matches, left to right, from position i on
RECURSIVE _extract_sub_panels_sub(_, _, _, _)
_extract_sub_panels_sub(code, i, out, sub_panels) ==
  LET starts == {k \in i..Len(code) : SUB_PANEL_BRACKET_PATTERN(code, k) /= 0}
      at == Min(starts)
      close == SUB_PANEL_BRACKET_PATTERN(code, at)
  IN  IF starts = {}
      THEN [code |-> out \o SubSeq(code, i, Len(code)), sub_panels |-> sub_panels]
      ELSE _extract_sub_panels_sub(code, close + 1, out \o SubSeq(code, i, at),
             dict_set(sub_panels, code[at],
                      process_bracket(code[at], SubSeq(code, at + 2, close - 1))))

_extract_sub_panels(code) == _extract_sub_panels_sub(code, 1, <<>>, <<>>)

(***************************************************************************)
(* Inset extractor                                                         *)
(***************************************************************************)

NumberChars == Digits \cup {"."}

\* the position after the maximal run of [0-9.] that starts at p
number_end(code, p) ==
  Min({q \in p..(Len(code) + 1) : q > Len(code) \/ code[q] \notin NumberChars} \cup {Len(code) + 1})

\* '{' number ',' number ',' number ',' number '}' at position p:
\* [close |-> position of '}' or 0, groups |-> the four number strings]
inset_pattern(code, p) ==
  LET e1 == number_end(code, p + 1)
      e2 == number_end(code, e1 + 1)
      e3 == number_end(code, e2 + 1)
      e4 == number_end(code, e3 + 1)
  IN  IF /\ p <= Len(code) /\ code[p] = "{"
         /\ e1 > p + 1 /\ e1 <= Len(code) /\ code[e1] = ","
         /\ e2 > e1 + 1 /\ e2 <= Len(code) /\ code[e2] = ","
         /\ e3 > e2 + 1 /\ e3 <= Len(code) /\ code[e3] = ","
         /\ e4 > e3 + 1 /\ e4 <= Len(code) /\ code[e4] = "}"
      THEN [close |-> e4,
            groups |-> << SubSeq(code, p + 1, e1 - 1), SubSeq(code, e1 + 1, e2 - 1),
                          SubSeq(code, e2 + 1, e3 - 1), SubSeq(code, e3 + 1, e4 - 1) >>]
      ELSE [close |-> 0, groups |-> <<>>]

\* the consecutive quadruples that start at position p (the greedy '+' of MULTI_INSET_PATTERN)
RECURSIVE inset_matches(_, _)
inset_matches(code, p) ==
  LET m == inset_pattern(code, p)
  IN  IF m.close = 0 THEN <<>> ELSE <<m>> \o inset_matches(code, m.close + 1)

\* MULTI_INSET_PATTERN at position i: the quadruples after the letter, <<>> when no match
MULTI_INSET_PATTERN(code, i) ==
  IF i <= Len(code) /\ code[i] \in Letters THEN inset_matches(code, i + 1) ELSE <<>>

\* float(s) for s over [0-9.]: value in hundredths, or ValueError
float(s) ==
  LET dot == find(s, ".", 1)
      whole == IF dot = 0 THEN s ELSE SubSeq(s, 1, dot - 1)
      frac == IF dot = 0 THEN <<>> ELSE SubSeq(s, dot + 1, Len(s))
      frac2 == SubSeq(frac \o <<"0", "0">>, 1, 2)
  IN  IF (dot /= 0 /\ find(s, ".", dot + 1) /= 0) \/ (whole = <<>> /\ frac = <<>>)
      THEN [ok |-> FALSE, value |-> 0]
      ELSE [ok |-> TRUE, value |-> 100 * int(whole) + int(frac2)]

ValueError(s) == [type |-> "ValueError", kind |-> "float", args |-> <<s>>]
IndexError == [type |-> "IndexError", kind |-> "no_such_group", args |-> <<>>]

absolute_spec(groups) ==
  [type |-> "absolute",
   bounds |-> [i \in 1..4 |-> float(groups[i]).value]]

grid_spec(grid_code) == [type |-> "grid", grid_code |-> grid_code]

dict_append(d, key, val) ==
  dict_set(d, key, (IF dict_has(d, key) THEN dict_get(d, key) ELSE <<>>) \o <<val>>)

\* process_multi_inset on one match: appends one descriptor per quadruple, in order
RECURSIVE process_multi_inset(_, _, _)
process_multi_inset(panel, matches, insets) ==
  IF matches = <<>> THEN insets
  ELSE process_multi_inset(panel, Tail(matches),
         dict_append(insets, panel, absolute_spec(Head(matches).groups)))

\* the first number of the matched quadruples, in conversion order, that float() rejects
bad_numbers(matches) ==
  LET all == [n \in 1..(4 * Len(matches)) |-> matches[((n - 1) \div 4) + 1].groups[((n - 1) % 4) + 1]]
  IN  SelectSeq(all, LAMBDA g : ~float(g).ok)

\* MULTI_INSET_PATTERN.sub over the non-overlapping matches, from position i on
RECURSIVE _extract_insets_multi(_, _, _, _)
\* the match at position at, with its quadruples
_extract_insets_multi_match(code, i, out, insets, at, matches) ==
  IF bad_numbers(matches) /= <<>>
  THEN [error |-> Some(ValueError(bad_numbers(matches)[1])), code |-> out, insets |-> insets]
  ELSE _extract_insets_multi(code, matches[Len(matches)].close + 1,
         out \o SubSeq(code, i, at), process_multi_inset(code[at], matches, insets))

\* the positions from i on where MULTI_INSET_PATTERN matches
multi_inset_starts(code, i) == {k \in i..Len(code) : MULTI_INSET_PATTERN(code, k) /= <<>>}

_extract_insets_multi(code, i, out, insets) ==
  IF multi_inset_starts(code, i) = {}
  THEN [error |-> None, code |-> out \o SubSeq(code, i, Len(code)), insets |-> insets]
  ELSE _extract_insets_multi_match(code, i, out, insets, Min(multi_inset_starts(code, i)),
         MULTI_INSET_PATTERN(code, Min(multi_inset_starts(code, i))))

\* INSET_ABSOLUTE_PATTERN.search: a letter followed by one quadruple
INSET_ABSOLUTE_PATTERN(code) ==
  \E i \in 1..Len(code) : code[i] \in Letters /\ inset_pattern(code, i + 1).close /= 0

\* INSET_GRID_PATTERN at position i: the position of the closing '>', or 0
INSET_GRID_PATTERN(code, i) ==
  IF i + 2 <= Len(code) /\ code[i] \in Letters /\ code[i + 1] = "<" /\ code[i + 2] /= ">"
  THEN find(code, ">", i + 2)
  ELSE 0

\* INSET_GRID_PATTERN.sub over the non-overlapping matches, from position i on
RECURSIVE _extract_insets_grid(_, _, _, _)
_extract_insets_grid(code, i, out, insets) ==
  LET starts == {k \in i..Len(code) : INSET_GRID_PATTERN(code, k) /= 0}
      at == Min(starts)
      close == INSET_GRID_PATTERN(code, at)
  IN  IF starts = {}
      THEN [error |-> None, code |-> out \o SubSeq(code, i, Len(code)), insets |-> insets]
      ELSE _extract_insets_grid(code, close + 1, out \o SubSeq(code, i, at),
             dict_append(insets, code[at], grid_spec(SubSeq(code, at + 2, close - 1))))

\* the two passes that follow the MULTI_INSET_PATTERN pass
_extract_insets_after_multi(multi) ==
  IF multi.error /= None THEN multi
  ELSE IF INSET_ABSOLUTE_PATTERN(multi.code)
  THEN [error |-> Some(IndexError), code |-> multi.code, insets |-> multi.insets]
  ELSE _extract_insets_grid(multi.code, 1, <<>>, multi.insets)

\* returns [error, code, insets]
_extract_insets(code) ==
  _extract_insets_after_multi(_extract_insets_multi(code, 1, <<>>, <<>>))

(***************************************************************************)
(* Tree builder                                                            *)
(***************************************************************************)

\* LayoutNode.get_descendant: depth-first, the node itself first.  Returns None or
\* Some(path), the path being the child indices that lead from node to the node found.
RECURSIVE get_descendant(_, _)
get_descendant(node, node_id) ==
  IF node.id = node_id THEN Some(<<>>)
  ELSE LET hits == {i \in 1..Len(node.children) :
                      get_descendant(node.children[i], node_id) /= None}
       IN  IF hits = {} THEN None
           ELSE Some(<<Min(hits)>> \o get_descendant(node.children[Min(hits)], node_id)[1])

RECURSIVE node_at(_, _)
node_at(node, path) ==
  IF path = <<>> THEN node ELSE node_at(node.children[Head(path)], Tail(path))

\* the tree in which the node at path is replaced (in-place mutation of that node)
RECURSIVE replace_at(_, _, _)
replace_at(node, path, new) ==
  IF path = <<>> THEN new
  ELSE [node EXCEPT !.children =
          [i \in 1..Len(node.children) |->
             IF i = Head(path) THEN replace_at(node.children[i], Tail(path), new)
             ELSE node.children[i]]]

dict_update(metadata, key, val) ==
  [k \in DOMAIN metadata \cup {key} |-> IF k = key THEN val ELSE metadata[k]]

last_part(label) == split(label, ".")[Len(split(label, "."))]

sub_panel_nodes(panel_id, spec) ==
  IF spec.type = "grid"
  THEN [n \in 1..Len(spec.labels) |->
          LayoutNode("SUB_PANEL", spec.labels[n], Some(last_part(spec.labels[n])),
                     Some((n - 1) \div spec.ncols), Some((n - 1) % spec.ncols), 1, 1,
                     <<>>, EmptyDict, Some(panel_id))]
  ELSE [n \in 1..Len(spec.labels) |->
          LayoutNode("SUB_PANEL", spec.labels[n], Some(spec.items[n]),
                     Some(0), Some(n - 1), 1, 1, <<>>, EmptyDict, Some(panel_id))]

sub_panel_grid(spec) ==
  IF spec.type = "grid"
  THEN [nrows |-> spec.nrows, ncols |-> spec.ncols]
  ELSE [nrows |-> 1, ncols |-> Len(spec.labels)]

attach_sub_panels_to_panel(panel_node, panel_id, spec) ==
  [panel_node EXCEPT
     !.children = panel_node.children \o sub_panel_nodes(panel_id, spec),
     !.metadata = dict_update(panel_node.metadata, "sub_panel_grid", sub_panel_grid(spec))]

\* the loop over sub_panels.items(), from entry n on
RECURSIVE _attach_sub_panels_to_node_from(_, _, _)
_attach_sub_panels_to_node_from(node, sub_panels, n) ==
  IF n > Len(sub_panels) THEN node
  ELSE LET panel_id == <<sub_panels[n].k>>
           found == get_descendant(node, panel_id)
       IN  IF found = None
           THEN _attach_sub_panels_to_node_from(node, sub_panels, n + 1)
           ELSE _attach_sub_panels_to_node_from(
                  replace_at(node, found[1],
                    attach_sub_panels_to_panel(node_at(node, found[1]), panel_id,
                                               sub_panels[n].v)),
                  sub_panels, n + 1)

_attach_sub_panels_to_node(node, sub_panels) ==
  _attach_sub_panels_to_node_from(node, sub_panels, 1)

inset_id(panel_id, i) == panel_id \o chars("_inset_") \o str(i)
inset_label(i) == chars("Inset ") \o str(i + 1)

\* the inset node of a grid descriptor, given its parsed grid
grid_inset_node(panel_id, i, inset_spec, grid) ==
  IF grid.error /= None THEN [error |-> grid.error, node |-> None]
  ELSE [error |-> None,
        node |-> Some(LayoutNode("INSET", inset_id(panel_id, i), Some(inset_label(i)),
                   None, None, 1, 1, grid.node[1].children,
                   [type |-> "grid", grid_code |-> inset_spec.grid_code,
                    nrows |-> grid.node[1].metadata.nrows,
                    ncols |-> grid.node[1].metadata.ncols],
                   Some(panel_id)))]

\* the inset node for the i-th (0-based) descriptor; a grid inset parses its grid code
inset_node(panel_id, i, inset_spec, section_map) ==
  IF inset_spec.type = "grid"
  THEN grid_inset_node(panel_id, i, inset_spec, _parse_grid(inset_spec.grid_code, section_map))
  ELSE [error |-> None,
        node |-> Some(LayoutNode("INSET", inset_id(panel_id, i), Some(inset_label(i)),
                   None, None, 1, 1, <<>>, inset_spec, Some(panel_id)))]

\* the inner loop over enumerate(inset_list), from index i (0-based) on
RECURSIVE attach_insets_to_panel(_, _, _, _, _)
\* panel_node.children.append(inset_node), then the rest of the loop
append_inset(panel_node, panel_id, inset_list, i, section_map, made) ==
  IF made.error /= None THEN made
  ELSE attach_insets_to_panel(
         [panel_node EXCEPT !.children = Append(panel_node.children, made.node[1])],
         panel_id, inset_list, i + 1, section_map)

attach_insets_to_panel(panel_node, panel_id, inset_list, i, section_map) ==
  IF i >= Len(inset_list) THEN [error |-> None, node |-> Some(panel_node)]
  ELSE append_inset(panel_node, panel_id, inset_list, i, section_map,
                    inset_node(panel_id, i, inset_list[i + 1], section_map))

\* the loop over insets.items(), from entry n on; returns [error, node]
RECURSIVE _attach_insets_to_node_from(_, _, _, _)
\* the panel found at path, with its insets attached, put back into node
_attach_insets_to_found(node, insets, n, section_map, path, done) ==
  IF done.error /= None THEN done
  ELSE _attach_insets_to_node_from(replace_at(node, path, done.node[1]),
                                   insets, n + 1, section_map)

\* panel_node = node.get_descendant(panel_id)
_attach_insets_to_descendant(node, insets, n, section_map, found) ==
  IF found = None
  THEN _attach_insets_to_node_from(node, insets, n + 1, section_map)
  ELSE _attach_insets_to_found(node, insets, n, section_map, found[1],
         attach_insets_to_panel(node_at(node, found[1]), <<insets[n].k>>, insets[n].v, 0,
                                section_map))

_attach_insets_to_node_from(node, insets, n, section_map) ==
  IF n > Len(insets) THEN [error |-> None, node |-> Some(node)]
  ELSE _attach_insets_to_descendant(node, insets, n, section_map,
                                    get_descendant(node, <<insets[n].k>>))

_attach_insets_to_node(node, insets, section_map) ==
  _attach_insets_to_node_from(node, insets, 1, section_map)

section_label(section_name) == title(replace_char(section_name, "_", " "))

\* the Section node of a parsed section grid, with sub-panels and insets attached
_create_section_node_of(section_name, section_map, subs, ins, section_grid) ==
  IF section_grid.error /= None THEN [error |-> section_grid.error, node |-> None]
  ELSE _attach_insets_to_node(
         _attach_sub_panels_to_node(
           LayoutNode("SECTION", section_name, Some(section_label(section_name)),
                      None, None, 1, 1, section_grid.node[1].children,
                      [nrows |-> section_grid.node[1].metadata.nrows,
                       ncols |-> section_grid.node[1].metadata.ncols],
                      None),
           subs.sub_panels),
         ins.insets, section_map)

\* the section after the extraction of its insets
_create_section_node_insets(section_name, section_map, subs, ins) ==
  IF ins.error /= None THEN [error |-> ins.error, node |-> None]
  ELSE _create_section_node_of(section_name, section_map, subs, ins,
                               _parse_grid(ins.code, section_map))

\* the section after the extraction of its sub-panels
_create_section_node_sub_panels(section_name, section_map, subs) ==
  _create_section_node_insets(section_name, section_map, subs, _extract_insets(subs.code))

\* returns [error, node]
_create_section_node(section_name, section_content, section_map) ==
  _create_section_node_sub_panels(section_name, section_map,
                                  _extract_sub_panels(section_content))

(***************************************************************************)
(* LayoutTreeValidator                                                     *)
(***************************************************************************)

RECURSIVE flatten(_)
flatten(seqs) == IF seqs = <<>> THEN <<>> ELSE Head(seqs) \o flatten(Tail(seqs))

\* a diagnostic string, held as its message kind and the values formatted into it
diagnostic(kind, args) == [kind |-> kind, args |-> args]

RECURSIVE get_all_panel_ids(_)
get_all_panel_ids(node) ==
  (IF node.node_type \in {"PANEL", "SUB_PANEL"} THEN <<node.id>> ELSE <<>>)
  \o flatten([i \in 1..Len(node.children) |-> get_all_panel_ids(node.children[i])])

structure_errors(tree) ==
  (IF tree.root.children = <<>> THEN <<diagnostic("no_panels", <<>>)>> ELSE <<>>)
  \o (IF tree.nrows <= 0 \/ tree.ncols <= 0
      THEN <<diagnostic("invalid_dimensions", <<str(tree.nrows), str(tree.ncols)>>)>>
      ELSE <<>>)

duplicate_errors(panel_ids) ==
  flatten([n \in 1..Len(panel_ids) |->
             IF \E m \in 1..(n - 1) : panel_ids[m] = panel_ids[n]
             THEN <<diagnostic("duplicate_id", <<panel_ids[n]>>)>>
             ELSE <<>>])

\* an overlap test that also counts rectangles meeting along an edge
_panels_overlap_or_touch(p1, p2) ==
  IF p1.row = None \/ p2.row = None THEN FALSE
  ELSE /\ ~(p1.row[1] + p1.rowspan < p2.row[1] \/ p2.row[1] + p2.rowspan < p1.row[1])
       /\ ~(p1.col[1] + p1.colspan < p2.col[1] \/ p2.col[1] + p2.colspan < p1.col[1])

_panels_overlap(p1, p2) ==
  IF p1.row = None \/ p2.row = None THEN FALSE
  ELSE /\ ~(p1.row[1] + p1.rowspan <= p2.row[1] \/ p2.row[1] + p2.rowspan <= p1.row[1])
       /\ ~(p1.col[1] + p1.colspan <= p2.col[1] \/ p2.col[1] + p2.colspan <= p1.col[1])

overlap_candidates(tree) ==
  flatten([i \in 1..Len(tree.root.children) |->
             IF tree.root.children[i].node_type = "PANEL" THEN <<tree.root.children[i]>>
             ELSE IF tree.root.children[i].node_type = "SECTION"
                  THEN tree.root.children[i].children
                  ELSE <<>>])

_check_overlaps(tree) ==
  LET panels == overlap_candidates(tree)
  IN  flatten([i \in 1..Len(panels) |->
        flatten([j \in 1..Len(panels) |->
                   IF j > i /\ _panels_overlap(panels[i], panels[j])
                   THEN <<diagnostic("overlap", <<panels[i].id, panels[j].id>>)>>
                   ELSE <<>>])])

\* the cells _mark_grid_cells sets for one panel
_mark_grid_cells(nrows, ncols, panel) ==
  IF panel.row = None THEN {}
  ELSE {rc \in (0..(nrows - 1)) \X (0..(ncols - 1)) :
          /\ panel.row[1] <= rc[1] /\ rc[1] < panel.row[1] + panel.rowspan
          /\ panel.col[1] <= rc[2] /\ rc[2] < panel.col[1] + panel.colspan}

marked_cells(tree) ==
  UNION {IF tree.root.children[i].node_type = "PANEL"
         THEN _mark_grid_cells(tree.nrows, tree.ncols, tree.root.children[i])
         ELSE IF tree.root.children[i].node_type = "SECTION"
         THEN UNION {IF tree.root.children[i].children[j].node_type = "PANEL"
                     THEN _mark_grid_cells(tree.nrows, tree.ncols,
                                           tree.root.children[i].children[j])
                     ELSE {} : j \in 1..Len(tree.root.children[i].children)}
         ELSE {} : i \in 1..Len(tree.root.children)}

cell_text(r, c) == <<"(">> \o str(r) \o <<",">> \o str(c) \o <<")">>

_check_gaps(tree) ==
  LET unassigned ==
        flatten([n \in 1..(tree.nrows * tree.ncols) |->
                   IF <<(n - 1) \div tree.ncols, (n - 1) % tree.ncols>> \in marked_cells(tree)
                   THEN <<>>
                   ELSE <<cell_text((n - 1) \div tree.ncols, (n - 1) % tree.ncols)>>])
  IN  IF unassigned /= <<>>
      THEN <<diagnostic("unassigned_cells", SubSeq(unassigned, 1, Min({5, Len(unassigned)})))>>
      ELSE <<>>

opt_text(v) == IF v = None THEN chars("None") ELSE str(v[1])

sub_panel_errors_of(node) ==
  LET sub_panels == SelectSeq(node.children, LAMBDA c : c.node_type = "SUB_PANEL")
      has_grid == "sub_panel_grid" \in DOMAIN node.metadata
      nrows == IF has_grid THEN node.metadata.sub_panel_grid.nrows ELSE 1
      ncols == IF has_grid THEN node.metadata.sub_panel_grid.ncols ELSE Len(sub_panels)
  IN  IF node.node_type = "PANEL" /\ sub_panels /= <<>>
      THEN (IF Len(sub_panels) > nrows * ncols
            THEN <<diagnostic("sub_panels_overflow",
                              <<node.id, str(Len(sub_panels)), str(nrows * ncols)>>)>>
            ELSE <<>>)
           \o flatten([n \in 1..Len(sub_panels) |->
                IF \E m \in 1..(n - 1) : /\ sub_panels[m].row = sub_panels[n].row
                                         /\ sub_panels[m].col = sub_panels[n].col
                THEN <<diagnostic("sub_panels_overlap",
                                  <<node.id, opt_text(sub_panels[n].row),
                                    opt_text(sub_panels[n].col)>>)>>
                ELSE <<>>])
      ELSE <<>>

RECURSIVE sub_panels_check_node(_)
sub_panels_check_node(node) ==
  sub_panel_errors_of(node)
  \o flatten([i \in 1..Len(node.children) |-> sub_panels_check_node(node.children[i])])

_validate_sub_panels(tree) == sub_panels_check_node(tree.root)

\* a bounds check without the test that the inset ends inside the panel
inset_bounds_errors_without_extent(panel_id, inset) ==
  LET bounds == IF "bounds" \in DOMAIN inset.metadata THEN inset.metadata.bounds
                ELSE <<0, 0, 0, 0>>
  IN  IF "type" \in DOMAIN inset.metadata /\ inset.metadata.type = "absolute"
      THEN (IF ~(0 <= bounds[1] /\ bounds[1] <= 100 /\ 0 <= bounds[2] /\ bounds[2] <= 100)
            THEN <<diagnostic("inset_position", <<panel_id, str(bounds[1]), str(bounds[2])>>)>>
            ELSE <<>>)
           \o (IF ~(0 < bounds[3] /\ bounds[3] <= 100 /\ 0 < bounds[4] /\ bounds[4] <= 100)
               THEN <<diagnostic("inset_size", <<panel_id, str(bounds[3]), str(bounds[4])>>)>>
               ELSE <<>>)
      ELSE <<>>

inset_bounds_errors(panel_id, inset) ==
  LET bounds == IF "bounds" \in DOMAIN inset.metadata THEN inset.metadata.bounds
                ELSE <<0, 0, 0, 0>>
      x == bounds[1]
      y == bounds[2]
      w == bounds[3]
      h == bounds[4]
  IN  IF "type" \in DOMAIN inset.metadata /\ inset.metadata.type = "absolute"
      THEN (IF ~(0 <= x /\ x <= 100 /\ 0 <= y /\ y <= 100)
            THEN <<diagnostic("inset_position", <<panel_id, str(x), str(y)>>)>> ELSE <<>>)
           \o (IF ~(0 < w /\ w <= 100 /\ 0 < h /\ h <= 100)
               THEN <<diagnostic("inset_size", <<panel_id, str(w), str(h)>>)>> ELSE <<>>)
           \o (IF x + w > 100 \/ y + h > 100
               THEN <<diagnostic("inset_outside", <<panel_id>>)>> ELSE <<>>)
      ELSE <<>>

inset_errors_of(node) ==
  LET insets == SelectSeq(node.children, LAMBDA c : c.node_type = "INSET")
  IN  IF node.node_type = "PANEL"
      THEN flatten([n \in 1..Len(insets) |-> inset_bounds_errors(node.id, insets[n])])
      ELSE <<>>

RECURSIVE insets_check_node(_)
insets_check_node(node) ==
  inset_errors_of(node)
  \o flatten([i \in 1..Len(node.children) |-> insets_check_node(node.children[i])])

_validate_insets(tree) == insets_check_node(tree.root)

\* a validate that returns as soon as one check has found something
validate_until_first_failure(validator, tree) ==
  IF structure_errors(tree) /= <<>> THEN structure_errors(tree)
  ELSE IF duplicate_errors(get_all_panel_ids(tree.root)) /= <<>>
  THEN duplicate_errors(get_all_panel_ids(tree.root))
  ELSE IF validator.check_overlaps /\ _check_overlaps(tree) /= <<>> THEN _check_overlaps(tree)
  ELSE IF validator.check_gaps /\ _check_gaps(tree) /= <<>> THEN _check_gaps(tree)
  ELSE IF _validate_sub_panels(tree) /= <<>> THEN _validate_sub_panels(tree)
  ELSE _validate_insets(tree)

\* LayoutTreeValidator.validate for a validator [check_overlaps, check_gaps, check_connectivity]
validate(validator, tree) ==
  structure_errors(tree)
  \o duplicate_errors(get_all_panel_ids(tree.root))
  \o (IF validator.check_overlaps THEN _check_overlaps(tree) ELSE <<>>)
  \o (IF validator.check_gaps THEN _check_gaps(tree) ELSE <<>>)
  \o _validate_sub_panels(tree)
  \o _validate_insets(tree)

LayoutTreeValidator(check_overlaps, check_gaps, check_connectivity) ==
  [check_overlaps |-> check_overlaps, check_gaps |-> check_gaps,
   check_connectivity |-> check_connectivity]

(***************************************************************************)
(* LayoutCodeParser                                                        *)
(***************************************************************************)

LayoutTree(root, nrows, ncols, row_ratios, col_ratios, raw_code) ==
  [root |-> root, nrows |-> nrows, ncols |-> ncols, row_ratios |-> row_ratios,
   col_ratios |-> col_ratios, raw_code |-> raw_code, version |-> chars("1.0")]

\* LayoutCodeParser.__init__
LayoutCodeParser(validate_flag, strict_mode) ==
  [validate |-> validate_flag, strict_mode |-> strict_mode,
   _validator |-> LayoutTreeValidator(TRUE, FALSE, TRUE),
   _parse_context |-> EmptyDict]

reset_context ==
  [sections |-> EmptyDict, sub_panels |-> EmptyDict, insets |-> EmptyDict,
   panel_counter |-> 0]

context_section_map(context) ==
  IF "section_map" \in DOMAIN context THEN context.section_map ELSE EmptyDict

\* sections[section_name] for a name that is not a key of sections
KeyError(key) == [type |-> "KeyError", kind |-> "sections", args |-> <<key>>]

\* Step 5: the loop over grid_node.children, from child n on; returns [error, node]
RECURSIVE build_root(_, _, _, _, _)
\* the section node made for child n, placed on the child's cell
build_root_section(root, grid_children, n, sections, section_map, made) ==
  IF made.error /= None THEN made
  ELSE build_root(
         [root EXCEPT !.children =
            Append(root.children,
                   [made.node[1] EXCEPT !.row = grid_children[n].row,
                                        !.col = grid_children[n].col,
                                        !.rowspan = grid_children[n].rowspan,
                                        !.colspan = grid_children[n].colspan])],
         grid_children, n + 1, sections, section_map)

build_root(root, grid_children, n, sections, section_map) ==
  IF n > Len(grid_children) THEN [error |-> None, node |-> Some(root)]
  ELSE IF /\ grid_children[n].id[1] \in DOMAIN section_map
          /\ ~dict_has(sections, section_map[grid_children[n].id[1]])
  THEN [error |-> Some(KeyError(section_map[grid_children[n].id[1]])), node |-> None]
  ELSE IF grid_children[n].id[1] \in DOMAIN section_map
  THEN build_root_section(root, grid_children, n, sections, section_map,
         _create_section_node(section_map[grid_children[n].id[1]],
                              dict_get(sections, section_map[grid_children[n].id[1]]),
                              section_map))
  ELSE build_root([root EXCEPT !.children = Append(root.children, grid_children[n])],
                  grid_children, n + 1, sections, section_map)

raised(self, error) == [self |-> self, error |-> Some(error), tree |-> None]
returned(self, tree) == [self |-> self, error |-> None, tree |-> Some(tree)]

\* Step 8 without the escalation of strict mode
validated_without_strict_mode(self, tree) ==
  LET errors == validate(self._validator, tree)
  IN  IF self.validate /\ errors /= <<>>
      THEN returned(self,
             [tree EXCEPT !.root.metadata =
                dict_update(tree.root.metadata, "validation_warnings", errors)])
      ELSE returned(self, tree)

\* Step 8
validated(self, tree) ==
  LET errors == validate(self._validator, tree)
  IN  IF self.validate /\ errors /= <<>>
      THEN IF self.strict_mode
           THEN raised(self, LayoutValidationError(errors))
           ELSE returned(self,
                  [tree EXCEPT !.root.metadata =
                     dict_update(tree.root.metadata, "validation_warnings", errors)])
      ELSE returned(self, tree)

\* Steps 6 to 8, given the root with sub-panels and insets attached
parse_tree(self, raw_code, grid_node, attached) ==
  IF attached.error /= None THEN raised(self, attached.error[1])
  ELSE validated(self,
         LayoutTree(attached.node[1], grid_node.metadata.nrows, grid_node.metadata.ncols,
                    grid_node.metadata.row_ratios, grid_node.metadata.col_ratios, raw_code))

\* Step 6, given the root built in step 5
parse_attach(self, raw_code, subs, ins, grid_node, built) ==
  IF built.error /= None THEN raised(self, built.error[1])
  ELSE parse_tree(self, raw_code, grid_node,
         _attach_insets_to_node(_attach_sub_panels_to_node(built.node[1], subs.sub_panels),
                                ins.insets, context_section_map(self._parse_context)))

\* Step 5, given the grid parsed in step 4
parse_root(self, raw_code, secs, subs, ins, grid) ==
  IF grid.error /= None THEN raised(self, grid.error[1])
  ELSE parse_attach(self, raw_code, subs, ins, grid.node[1],
         build_root(LayoutNode("ROOT", chars("root"), None, None, None, 1, 1,
                               <<>>, EmptyDict, None),
                    grid.node[1].children, 1, secs.sections,
                    context_section_map(self._parse_context)))

\* Step 4, given the insets extracted in step 3
parse_grid(self, raw_code, secs, subs, ins) ==
  IF ins.error /= None THEN raised(self, ins.error[1])
  ELSE parse_root(self, raw_code, secs, subs, ins,
                  _parse_grid(ins.code, context_section_map(self._parse_context)))

\* Step 3, given the sub-panels extracted in step 2
parse_insets(self, raw_code, secs, subs) ==
  parse_grid(self, raw_code, secs, subs, _extract_insets(subs.code))

\* steps 1 and 2 of a parse that keeps the section map an earlier call stored
parse_sub_panels_keeping_section_map(self0, raw_code, secs) ==
  parse_insets([self0 EXCEPT !._parse_context =
                  IF "section_map" \in DOMAIN self0._parse_context
                  THEN dict_update(reset_context, "section_map",
                                   self0._parse_context.section_map)
                  ELSE dict_update(reset_context, "section_map", secs.section_map)],
               raw_code, secs, _extract_sub_panels(secs.code))

\* Step 2, given the sections extracted in step 1; the context holds the section map
parse_sub_panels(self0, raw_code, secs) ==
  parse_insets([self0 EXCEPT !._parse_context =
                  dict_update(reset_context, "section_map", secs.section_map)],
               raw_code, secs, _extract_sub_panels(secs.code))

\* LayoutCodeParser.parse: returns [self, error, tree], self being the instance after the call
parse(self0, layout_code) ==
  IF layout_code = <<>> \/ strip(layout_code) = <<>>
  THEN raised(self0, LayoutSyntaxError("empty_code", <<>>))
  ELSE parse_sub_panels(self0, strip(layout_code), _extract_sections(strip(layout_code)))

(***************************************************************************)
(* Serializer                                                              *)
(***************************************************************************)

\* LayoutNode.to_dict: a dictionary is a function on the keys it holds
RECURSIVE LayoutNode_to_dict(_)
LayoutNode_to_dict(node) ==
  LET result == [node_type |-> Some(NodeType[node.node_type]),
                 id |-> Some(node.id),
                 label |-> node.label,
                 row |-> node.row,
                 col |-> node.col,
                 rowspan |-> Some(node.rowspan),
                 colspan |-> Some(node.colspan),
                 children |-> Some([i \in 1..Len(node.children) |->
                                      LayoutNode_to_dict(node.children[i])]),
                 metadata |-> Some(node.metadata),
                 parent |-> node.parent]
  IN  [k \in {key \in DOMAIN result : result[key] /= None} |-> result[k][1]]

get(data, key, default) == IF key \in DOMAIN data THEN data[key] ELSE default
get_optional(data, key) == IF key \in DOMAIN data THEN Some(data[key]) ELSE None

\* dict.pop(key, default): the dictionary left behind
popped(data, key) == [k \in DOMAIN data \ {key} |-> data[k]]

RECURSIVE LayoutNode_from_dict(_)
\* a deserializer that reads the column from the 'row' entry
LayoutNode_from_dict_col_from_row(data) ==
  LET children_data == get(data, "children", <<>>)
  IN  LayoutNode(NodeType_of(get(data, "node_type", "panel")),
                 data.id,
                 get_optional(data, "label"),
                 get_optional(data, "row"),
                 get_optional(data, "row"),
                 get(data, "rowspan", 1),
                 get(data, "colspan", 1),
                 [i \in 1..Len(children_data) |-> LayoutNode_from_dict(children_data[i])],
                 get(data, "metadata", EmptyDict),
                 get_optional(data, "parent"))

LayoutNode_from_dict(data) ==
  LET children_data == get(data, "children", <<>>)
  IN  LayoutNode(NodeType_of(get(data, "node_type", "panel")),
                 data.id,
                 get_optional(data, "label"),
                 get_optional(data, "row"),
                 get_optional(data, "col"),
                 get(data, "rowspan", 1),
                 get(data, "colspan", 1),
                 [i \in 1..Len(children_data) |-> LayoutNode_from_dict(children_data[i])],
                 get(data, "metadata", EmptyDict),
                 get_optional(data, "parent"))

LayoutTree_to_dict(tree) ==
  [root |-> LayoutNode_to_dict(tree.root), nrows |-> tree.nrows, ncols |-> tree.ncols,
   row_ratios |-> tree.row_ratios, col_ratios |-> tree.col_ratios,
   raw_code |-> tree.raw_code, version |-> tree.version]

LayoutTree_from_dict(data) ==
  [root |-> LayoutNode_from_dict(data.root),
   nrows |-> get(data, "nrows", 0),
   ncols |-> get(data, "ncols", 0),
   row_ratios |-> get(data, "row_ratios", <<>>),
   col_ratios |-> get(data, "col_ratios", <<>>),
   raw_code |-> get(data, "raw_code", <<>>),
   version |-> get(data, "version", chars("1.0"))]

\* the argument dictionary after LayoutTree.from_dict: the root entry lost its children
after_from_dict(data) == [data EXCEPT !.root = popped(data.root, "children")]

(***************************************************************************)
(* Inputs.  A layout code is typed as a sequence of fragments of the input *)
(* grammar; each fragment records the construct it writes.                 *)
(***************************************************************************)

\* the most fragments in a layout code
MaxFragments == 2
\* the most characters in a plain grid code
MaxChars == 5

\* the text of a sequence of fragments
RECURSIVE text_of(_)
text_of(parts) == IF parts = <<>> THEN <<>> ELSE Head(parts).text \o text_of(Tail(parts))

\* str.join
RECURSIVE join(_, _)
join(items, sep) ==
  IF items = <<>> THEN <<>>
  ELSE IF Len(items) = 1 THEN items[1]
  ELSE items[1] \o sep \o join(Tail(items), sep)

\* cells and row separators
Plain(text) ==
  [kind |-> "plain", text |-> chars(text), label |-> "", name |-> <<>>, items |-> <<>>,
   shape |-> <<>>, quads |-> <<>>, parts |-> <<>>]
\* [name:content], the content written by the fragments parts
Section(name, parts) ==
  [kind |-> "section", text |-> <<"[">> \o chars(name) \o <<":">> \o text_of(parts) \o <<"]">>,
   label |-> "", name |-> chars(name), items |-> <<>>, shape |-> <<>>, quads |-> <<>>,
   parts |-> parts]
\* L[i1,i2,...]
SubPanelList(label, items) ==
  [kind |-> "sub_panel_list",
   text |-> <<label, "[">> \o join([i \in 1..Len(items) |-> chars(items[i])], <<",">>) \o <<"]">>,
   label |-> label, name |-> <<>>, items |-> [i \in 1..Len(items) |-> chars(items[i])],
   shape |-> <<>>, quads |-> <<>>, parts |-> <<>>]
\* L[RxC]
SubPanelGrid(label, rows, cols) ==
  [kind |-> "sub_panel_grid",
   text |-> <<label, "[">> \o str(rows) \o <<"x">> \o str(cols) \o <<"]">>,
   label |-> label, name |-> <<>>, items |-> <<>>, shape |-> <<rows, cols>>,
   quads |-> <<>>, parts |-> <<>>]
\* the text of a number given in hundredths, with two decimals
number_text(n) == str(n \div 100) \o <<".">> \o str((n % 100) \div 10) \o str(n % 10)
quad_text(quad) ==
  <<"{">> \o number_text(quad[1]) \o <<",">> \o number_text(quad[2]) \o <<",">>
    \o number_text(quad[3]) \o <<",">> \o number_text(quad[4]) \o <<"}">>
\* L{x,y,w,h}...{x,y,w,h}, the numbers in hundredths
AbsoluteInsets(label, quads) ==
  [kind |-> "absolute_insets",
   text |-> <<label>> \o flatten([i \in 1..Len(quads) |-> quad_text(quads[i])]),
   label |-> label, name |-> <<>>, items |-> <<>>, shape |-> <<>>, quads |-> quads,
   parts |-> <<>>]
\* L<nested-code>, the nested code written by the fragments parts
GridInset(label, parts) ==
  [kind |-> "grid_inset", text |-> <<label, "<">> \o text_of(parts) \o <<">">>,
   label |-> label, name |-> <<>>, items |-> <<>>, shape |-> <<>>, quads |-> <<>>,
   parts |-> parts]

GridChars == {"a", "b", ".", " ", "/", "\n"}

Fragments ==
  { Plain("a"), Plain("b"), Plain("/"), Plain("aba"),
    Section("s", <<Plain("ab")>>), Section("s", <<Plain("b")>>),
    Section("t", <<Plain("a/b")>>), Section("s", <<Plain("aba")>>),
    Section("s", <<Section("t", <<Plain("ab")>>)>>),
    Section("a", <<SubPanelGrid("a", 2, 2)>>),
    Section("t", <<SubPanelList("a", <<"i", "ii">>), GridInset("b", <<Plain("a")>>)>>),
    SubPanelList("a", <<"i", "ii">>), SubPanelGrid("a", 2, 2),
    SubPanelList("b", <<"i", "ii", "iii">>), SubPanelGrid("b", 2, 3),
    AbsoluteInsets("a", << <<60, 60, 35, 35>> >>),
    AbsoluteInsets("a", << <<10, 10, 20, 20>>, <<80, 80, 50, 50>> >>),
    AbsoluteInsets("b", << <<0, 0, 100, 100>> >>),
    GridInset("a", <<Plain("bc")>>), GridInset("b", <<Plain("de")>>),
    GridInset("a", <<Plain("bab")>>),
    GridInset("a", <<Section("s", <<Plain("bc")>>)>>),
    GridInset("a", <<SubPanelList("b", <<"i", "ii">>), Plain("c")>>),
    GridInset("b", <<AbsoluteInsets("a", << <<50, 50, 50, 50>> >>)>>) }

\* the fragments typed to a parser of any mode
ModeFragments ==
  { Plain("a"), Plain("."), Plain("/"), Plain("aba"),
    Section("s", <<Plain("ab")>>), Section("a", <<SubPanelGrid("a", 2, 2)>>),
    SubPanelList("a", <<"i", "ii">>),
    AbsoluteInsets("a", << <<60, 60, 35, 35>> >>),
    AbsoluteInsets("a", << <<10, 10, 20, 20>>, <<80, 80, 50, 50>> >>),
    GridInset("a", <<Plain("bc")>>), GridInset("b", <<Plain("de")>>) }

ParserModes == {<<TRUE, FALSE>>, <<TRUE, TRUE>>, <<FALSE, FALSE>>, <<FALSE, TRUE>>}

(***************************************************************************)
(* State: one LayoutCodeParser instance and the program that uses it       *)
(***************************************************************************)

VARIABLES
  parser,       \* the LayoutCodeParser instance
  typed,        \* the fragments (or characters) of the layout code, in order
  layout_code,  \* the argument of parse
  phase,        \* "compose", "parsed", "serialized", "restored"; "build", "validated"
  outcome,      \* of parse: [error, tree], one of them set
  data,         \* the dictionary LayoutTree.to_dict returned
  restored,     \* the tree LayoutTree.from_dict returned
  validator,    \* the LayoutTreeValidator instance the program validates with
  reports,      \* the lists its validate calls returned, in call order
  calls         \* the parse calls of the threads that share the parser

vars ==
  <<parser, typed, layout_code, phase, outcome, data, restored, validator, reports, calls>>

InitWith(modes) ==
  /\ \E mode \in modes : parser = LayoutCodeParser(mode[1], mode[2])
  /\ typed = <<>>
  /\ layout_code = <<>>
  /\ phase = "compose"
  /\ outcome = [error |-> None, tree |-> None]
  /\ data = None
  /\ restored = None
  /\ validator = LayoutTreeValidator(TRUE, FALSE, TRUE)
  /\ reports = <<>>
  /\ calls = <<>>

\* the default parser: LayoutCodeParser()
Init == InitWith({<<TRUE, FALSE>>})
InitModes == InitWith(ParserModes)

TypeFrom(fragments) ==
  /\ phase = "compose"
  /\ Len(typed) < MaxFragments
  /\ \E f \in fragments :
       /\ typed' = Append(typed, f)
       /\ layout_code' = layout_code \o f.text
  /\ UNCHANGED <<parser, phase, outcome, data, restored, validator, reports, calls>>

TypeFragment == TypeFrom(Fragments)
TypeModeFragment == TypeFrom(ModeFragments)

TypeChar ==
  /\ phase = "compose"
  /\ Len(typed) < MaxChars
  /\ \E ch \in GridChars :
       /\ typed' = Append(typed, Plain(ch))
       /\ layout_code' = Append(layout_code, ch)
  /\ UNCHANGED <<parser, phase, outcome, data, restored, validator, reports, calls>>

\* tree = parser.parse(layout_code)
Parse ==
  /\ phase = "compose"
  /\ LET r == parse(parser, layout_code)
     IN  /\ parser' = r.self
         /\ outcome' = [error |-> r.error, tree |-> r.tree]
  /\ phase' = "parsed"
  /\ UNCHANGED <<typed, layout_code, data, restored, validator, reports, calls>>

\* data = tree.to_dict()
ToDict ==
  /\ phase = "parsed"
  /\ outcome.tree /= None
  /\ data' = Some(LayoutTree_to_dict(outcome.tree[1]))
  /\ phase' = "serialized"
  /\ UNCHANGED <<parser, typed, layout_code, outcome, restored, validator, reports, calls>>

\* tree2 = LayoutTree.from_dict(data)
FromDict ==
  /\ phase = "serialized"
  /\ restored' = Some(LayoutTree_from_dict(data[1]))
  /\ data' = Some(after_from_dict(data[1]))
  /\ phase' = "restored"
  /\ UNCHANGED <<parser, typed, layout_code, outcome, validator, reports, calls>>

Next == TypeFragment \/ Parse \/ ToDict \/ FromDict
NextGrid == TypeChar \/ Parse \/ ToDict \/ FromDict
NextModes == TypeModeFragment \/ Parse \/ ToDict \/ FromDict

\* layout codes of the whole grammar, default parser
Spec == Init /\ [][Next]_vars
\* plain grid codes, default parser
SpecGrid == Init /\ [][NextGrid]_vars
\* layout codes typed to a parser of every validate / strict_mode setting
SpecModes == InitModes /\ [][NextModes]_vars

(***************************************************************************)
(* Trees built by hand, node by node, and handed to a validator            *)
(***************************************************************************)

MaxNodes == 3
MaxValidations == 2

\* (row, col, rowspan, colspan) of the panels a program places on the grid
PanelRects == {<<0, 0, 1, 1>>, <<0, 1, 1, 1>>, <<0, 0, 2, 2>>}

\* LayoutNode(NodeType.PANEL, id, row=.., col=.., rowspan=.., colspan=..)
BuiltPanels ==
  {LayoutNode("PANEL", id, None, Some(r[1]), Some(r[2]), r[3], r[4], <<>>, EmptyDict, None) :
     id \in {<<"a">>, <<"b">>}, r \in PanelRects}

\* LayoutNode(NodeType.SECTION, id)
BuiltSections ==
  {LayoutNode("SECTION", id, None, None, None, 1, 1, <<>>, EmptyDict, None) :
     id \in {<<"a">>, <<"s">>}}

\* LayoutNode(NodeType.SUB_PANEL, id, row=0, col=0)
BuiltSubPanels(owner) ==
  {LayoutNode("SUB_PANEL", id, None, Some(0), Some(0), 1, 1, <<>>, EmptyDict, None) :
     id \in {owner.id \o chars(".i"), <<"b">>}}

\* the bounds (x, y, w, h) given to absolute insets, in hundredths
InsetBounds ==
  {<<60, 60, 35, 35>>, <<80, 80, 50, 50>>, <<120, 0, 10, 10>>, <<10, 10, 0, 50>>}

\* LayoutNode(NodeType.INSET, id, metadata={'type': .., 'bounds': ..})
BuiltInsets(owner) ==
  {LayoutNode("INSET", inset_id(owner.id, 0), None, None, None, 1, 1, <<>>,
              [type |-> "absolute", bounds |-> b], None) : b \in InsetBounds}
  \cup {LayoutNode("INSET", inset_id(owner.id, 0), None, None, None, 1, 1, <<>>,
                   [type |-> "grid"], None)}

\* the nodes a program may put below a node of the top level
BuiltBelow(owner) ==
  IF owner.node_type = "PANEL" THEN BuiltSubPanels(owner) \cup BuiltInsets(owner)
  ELSE BuiltPanels

\* (nrows, ncols, check_overlaps, check_gaps) of the tree and of the validator
TreeSetups ==
  {<<2, 2, TRUE, FALSE>>, <<2, 2, TRUE, TRUE>>, <<2, 2, FALSE, FALSE>>,
   <<0, 2, TRUE, FALSE>>, <<2, 0, TRUE, TRUE>>}

\* the nodes below a node, in depth-first order
RECURSIVE nodes_below(_)
nodes_below(node) ==
  flatten([i \in 1..Len(node.children) |->
             <<node.children[i]>> \o nodes_below(node.children[i])])

\* tree = LayoutTree(root=LayoutNode(NodeType.ROOT, 'root'), nrows=.., ncols=..)
\* validator = LayoutTreeValidator(check_overlaps=.., check_gaps=..)
InitTrees ==
  /\ parser = LayoutCodeParser(FALSE, FALSE)
  /\ typed = <<>>
  /\ layout_code = <<>>
  /\ phase = "build"
  /\ data = None
  /\ restored = None
  /\ reports = <<>>
  /\ calls = <<>>
  /\ \E setup \in TreeSetups :
       /\ outcome = [error |-> None,
                     tree |-> Some(LayoutTree(
                       LayoutNode("ROOT", chars("root"), None, None, None, 1, 1, <<>>,
                                  EmptyDict, None),
                       setup[1], setup[2], <<>>, <<>>, <<>>))]
       /\ validator = LayoutTreeValidator(setup[3], setup[4], TRUE)

\* the tree with node appended to root.children
with_child(tree, node) ==
  [tree EXCEPT !.root.children = Append(tree.root.children, node)]

\* the tree with node appended to the children of the last child of the root
with_grandchild(tree, node) ==
  [tree EXCEPT !.root.children[Len(tree.root.children)].children =
     Append(tree.root.children[Len(tree.root.children)].children, node)]

\* root.children.append(LayoutNode(..))
AddChild ==
  /\ phase = "build"
  /\ Len(nodes_below(outcome.tree[1].root)) < MaxNodes
  /\ \E node \in BuiltPanels \cup BuiltSections :
       outcome' = [outcome EXCEPT !.tree = Some(with_child(outcome.tree[1], node))]
  /\ UNCHANGED <<parser, typed, layout_code, phase, data, restored, validator, reports, calls>>

\* root.children[-1].children.append(LayoutNode(..))
AddGrandchild ==
  /\ phase = "build"
  /\ Len(nodes_below(outcome.tree[1].root)) < MaxNodes
  /\ outcome.tree[1].root.children /= <<>>
  /\ \E node \in BuiltBelow(outcome.tree[1].root.children[Len(outcome.tree[1].root.children)]) :
       outcome' = [outcome EXCEPT !.tree = Some(with_grandchild(outcome.tree[1], node))]
  /\ UNCHANGED <<parser, typed, layout_code, phase, data, restored, validator, reports, calls>>

\* a validate call that leaves its diagnostics on the root it inspected
validate_call_keeping_errors(self, tree) ==
  [tree |-> [tree EXCEPT !.root.metadata =
               dict_update(tree.root.metadata, "validation_errors", validate(self, tree))],
   errors |-> validate(self, tree)]

\* errors = validator.validate(tree): the tree after the call and the list returned
validate_call(self, tree) == [tree |-> tree, errors |-> validate(self, tree)]

\* errors = validator.validate(tree)
Validate ==
  /\ phase \in {"build", "parsed", "validated"}
  /\ outcome.tree /= None
  /\ Len(reports) < MaxValidations
  /\ outcome' = [outcome EXCEPT !.tree = Some(validate_call(validator, outcome.tree[1]).tree)]
  /\ reports' = Append(reports, validate_call(validator, outcome.tree[1]).errors)
  /\ phase' = "validated"
  /\ UNCHANGED <<parser, typed, layout_code, data, restored, validator, calls>>

\* the bounds typed into inset annotations, in hundredths
TypedBounds == InsetBounds \cup {<<0, 0, 100, 100>>, <<0, 0, 150, 50>>, <<0, 50, 40, 60>>}

\* grid cells and absolute inset annotations
InsetFragments ==
  {Plain("a"), Plain("b"), Plain("/")}
  \cup {AbsoluteInsets("a", <<q>>) : q \in TypedBounds}

\* parser = LayoutCodeParser(validate=False), validator = LayoutTreeValidator()
InitInsets == InitWith({<<FALSE, FALSE>>})

TypeInsetFragment == TypeFrom(InsetFragments)

NextInsets == TypeInsetFragment \/ Parse \/ Validate

\* codes with inset annotations, parsed without validation and then validated
SpecInsets == InitInsets /\ [][NextInsets]_vars

\* grid cells, empty cells and sections
GapFragments ==
  {Plain("a"), Plain("b"), Plain("."), Plain("/"),
   Section("s", <<Plain("b")>>), Section("t", <<Plain("ab")>>)}

\* parser = LayoutCodeParser(validate=False); validator = LayoutTreeValidator()
\* or validator = LayoutTreeValidator(check_gaps=True)
InitGaps ==
  /\ parser = LayoutCodeParser(FALSE, FALSE)
  /\ typed = <<>>
  /\ layout_code = <<>>
  /\ phase = "compose"
  /\ outcome = [error |-> None, tree |-> None]
  /\ data = None
  /\ restored = None
  /\ \E check_gaps \in BOOLEAN : validator = LayoutTreeValidator(TRUE, check_gaps, TRUE)
  /\ reports = <<>>
  /\ calls = <<>>

TypeGapFragment == TypeFrom(GapFragments)

NextGaps == TypeGapFragment \/ Parse \/ Validate

\* codes with empty cells and sections, parsed without validation and then
\* validated with the gap check off or on
SpecGaps == InitGaps /\ [][NextGaps]_vars

(***************************************************************************)
(* Sequential parse calls on one instance                                  *)
(***************************************************************************)

\* the most parse calls made on the instance
MaxCalls == 2

\* grid cells and sections of different names
CallFragments ==
  {Plain("a"), Plain("/"), Section("s", <<Plain("b")>>), Section("t", <<Plain("a")>>)}

TypeCallFragment == TypeFrom(CallFragments)

\* the program keeps what the call returned or raised and writes the next code
CallAgain ==
  /\ phase = "parsed"
  /\ Len(calls) < MaxCalls - 1
  /\ calls' = Append(calls, [layout_code |-> layout_code, outcome |-> outcome])
  /\ typed' = <<>>
  /\ layout_code' = <<>>
  /\ phase' = "compose"
  /\ UNCHANGED <<parser, outcome, data, restored, validator, reports>>

NextCalls == TypeCallFragment \/ Parse \/ CallAgain

\* one instance of any mode, called with one code after the other
SpecCalls == InitModes /\ [][NextCalls]_vars

(***************************************************************************)
(* Codes with malformed constructs                                         *)
(***************************************************************************)

\* [name:content without the closing bracket
UnterminatedSection(name, parts) ==
  [kind |-> "unterminated_section",
   text |-> <<"[">> \o chars(name) \o <<":">> \o text_of(parts),
   label |-> "", name |-> chars(name), items |-> <<>>, shape |-> <<>>, quads |-> <<>>,
   parts |-> parts]

\* L[content], the content neither a grid shape nor a list of non-empty items
MalformedBracket(label, content) ==
  [kind |-> "malformed_bracket", text |-> <<label, "[">> \o chars(content) \o <<"]">>,
   label |-> label, name |-> <<>>, items |-> <<chars(content)>>, shape |-> <<>>,
   quads |-> <<>>, parts |-> <<>>]

\* L{x,y,w,h}, one of the four components not a number
MalformedInset(label, components) ==
  [kind |-> "malformed_inset",
   text |-> <<label, "{">>
            \o join([i \in 1..Len(components) |-> chars(components[i])], <<",">>)
            \o <<"}">>,
   label |-> label, name |-> <<>>, items |-> [i \in 1..Len(components) |-> chars(components[i])],
   shape |-> <<>>, quads |-> <<>>, parts |-> <<>>]

MalformedFragments ==
  { Plain("a"), Plain("b"), Plain("/"),
    UnterminatedSection("s", <<Plain("ab")>>),
    UnterminatedSection("t", <<Section("s", <<Plain("b")>>)>>),
    MalformedBracket("a", ""), MalformedBracket("a", ","), MalformedBracket("b", "i,,ii"),
    MalformedInset("a", <<"0.1.2", "0", "1", "1">>),
    MalformedInset("b", <<"0", "0", ".", "1">>) }

TypeMalformedFragment == TypeFrom(MalformedFragments)

NextMalformed == TypeMalformedFragment \/ Parse

\* codes with malformed constructs, default parser
SpecMalformed == Init /\ [][NextMalformed]_vars

(***************************************************************************)
(* Codes whose annotations sit inside a nested grid: the descriptor is     *)
(* recorded at the outer level for a label that has no node there          *)
(***************************************************************************)

OrphanFragments ==
  { Plain("a"), Plain("c"), Plain("/"),
    GridInset("a", <<SubPanelList("b", <<"i", "ii">>), Plain("c")>>),
    GridInset("a", <<AbsoluteInsets("b", << <<10, 10, 20, 20>> >>), Plain("c")>>) }

TypeOrphanFragment == TypeFrom(OrphanFragments)

NextOrphans == TypeOrphanFragment \/ Parse

\* such codes typed to a parser of every validate / strict_mode setting
SpecOrphans == InitModes /\ [][NextOrphans]_vars

(***************************************************************************)
(* Threads that call parse on one LayoutCodeParser instance.  A call runs  *)
(* in three steps, and the steps of different calls interleave; the        *)
(* instance attribute _parse_context is the state the calls share.         *)
(***************************************************************************)

Threads == {1, 2}

\* the codes the threads parse
ThreadCodes ==
  {chars("ab"), chars(" "), Section("s", <<Plain("ab")>>).text,
   Section("t", <<Plain("b")>>).text \o chars("a")}

\* a thread that has not called parse yet
idle ==
  [pc |-> "idle", layout_code |-> <<>>, raw_code |-> <<>>,
   sections |-> [code |-> <<>>, sections |-> <<>>, section_map |-> EmptyDict],
   outcome |-> [error |-> None, tree |-> None]]

\* one parser for all threads
InitThreads ==
  /\ parser = LayoutCodeParser(TRUE, FALSE)
  /\ typed = <<>>
  /\ layout_code = <<>>
  /\ phase = "threads"
  /\ outcome = [error |-> None, tree |-> None]
  /\ data = None
  /\ restored = None
  /\ validator = LayoutTreeValidator(TRUE, FALSE, TRUE)
  /\ reports = <<>>
  /\ calls = [t \in Threads |-> idle]

\* thread t calls parser.parse(code)
Call(t) ==
  /\ calls[t].pc = "idle"
  /\ \E code \in ThreadCodes :
       calls' = [calls EXCEPT ![t].pc = "entered", ![t].layout_code = code]
  /\ UNCHANGED <<parser, typed, layout_code, phase, outcome, data, restored, validator,
                 reports>>

\* the test for an empty code, raw_code, and the reset of self._parse_context
ResetContext(t) ==
  /\ calls[t].pc = "entered"
  /\ IF calls[t].layout_code = <<>> \/ strip(calls[t].layout_code) = <<>>
     THEN /\ calls' = [calls EXCEPT
                         ![t].pc = "done",
                         ![t].outcome = [error |-> Some(LayoutSyntaxError("empty_code", <<>>)),
                                         tree |-> None]]
          /\ UNCHANGED parser
     ELSE /\ calls' = [calls EXCEPT ![t].pc = "reset",
                                    ![t].raw_code = strip(calls[t].layout_code)]
          /\ parser' = [parser EXCEPT !._parse_context = reset_context]
  /\ UNCHANGED <<typed, layout_code, phase, outcome, data, restored, validator, reports>>

\* Step 1: _extract_sections, which stores the section map in self._parse_context
ExtractSections(t) ==
  /\ calls[t].pc = "reset"
  /\ calls' = [calls EXCEPT ![t].pc = "extracted",
                            ![t].sections = _extract_sections(calls[t].raw_code)]
  /\ parser' = [parser EXCEPT !._parse_context =
                  dict_update(parser._parse_context, "section_map",
                              _extract_sections(calls[t].raw_code).section_map)]
  /\ UNCHANGED <<typed, layout_code, phase, outcome, data, restored, validator, reports>>

\* Steps 2 to 8 of the thread, on the context the instance holds at that time
steps_2_to_8(self, call) ==
  parse_insets(self, call.raw_code, call.sections, _extract_sub_panels(call.sections.code))

\* Steps 2 to 8: the grid parser and the tree builder read self._parse_context
BuildTree(t) ==
  /\ calls[t].pc = "extracted"
  /\ calls' = [calls EXCEPT
                 ![t].pc = "done",
                 ![t].outcome = [error |-> steps_2_to_8(parser, calls[t]).error,
                                 tree |-> steps_2_to_8(parser, calls[t]).tree]]
  /\ UNCHANGED <<parser, typed, layout_code, phase, outcome, data, restored, validator,
                 reports>>

NextThreads ==
  \E t \in Threads : Call(t) \/ ResetContext(t) \/ ExtractSections(t) \/ BuildTree(t)

\* two threads, each with one parse call on the shared parser
SpecThreads == InitThreads /\ [][NextThreads]_vars

NextTrees == AddChild \/ AddGrandchild \/ Validate

\* trees built by hand, validated by a validator of several settings
SpecTrees == InitTrees /\ [][NextTrees]_vars

(***************************************************************************)
(* The layout a code describes, read off the code itself                   *)
(***************************************************************************)

\* the positions of the code holding a cell: neither a row separator nor a space
CellPositions(code) == {p \in 1..Len(code) : code[p] \notin {"/", "\n", " "}}
\* the first and the last cell of the row that position p stands in
RowFirst(code, p) ==
  Min({q \in CellPositions(code) :
         q <= p /\ \A k \in q..p : code[k] \notin {"/", "\n"}})
RowLast(code, p) ==
  Max({q \in CellPositions(code) :
         q >= p /\ \A k \in p..q : code[k] \notin {"/", "\n"}})
\* the number of non-blank rows and the length of the longest stripped row
RowCount(code) == Cardinality({RowFirst(code, p) : p \in CellPositions(code)})
LongestRow(code) ==
  Max({RowLast(code, p) - RowFirst(code, p) + 1 : p \in CellPositions(code)})
\* the cell <<row, col>> of position p, rows counted over the non-blank rows
CellOf(code, p) ==
  << Cardinality({RowFirst(code, q) : q \in {r \in CellPositions(code) : r < RowFirst(code, p)}}),
     p - RowFirst(code, p) >>
\* the labels of a code and the cells of a label
LabelsOf(code) == {code[p] : p \in {q \in CellPositions(code) : code[q] /= "."}}
\* the labels that name Panels: letters and digits
PanelLabelsOf(code) == {label \in LabelsOf(code) : isalnum(label)}
CellsOf(code, label) ==
  {CellOf(code, p) : p \in {q \in CellPositions(code) : code[q] = label}}
\* the bounding rectangle of a set of cells
Rectangle(cells) ==
  [row |-> Min({c[1] : c \in cells}), col |-> Min({c[2] : c \in cells}),
   rowspan |-> Max({c[1] : c \in cells}) - Min({c[1] : c \in cells}) + 1,
   colspan |-> Max({c[2] : c \in cells}) - Min({c[2] : c \in cells}) + 1]
FillsRectangle(cells) ==
  Cardinality(cells) = Rectangle(cells).rowspan * Rectangle(cells).colspan
NonRectangular(code) == {label \in LabelsOf(code) : ~FillsRectangle(CellsOf(code, label))}
\* the children of a node that have the given kind
ChildrenOfType(node, node_type) ==
  {i \in 1..Len(node.children) : node.children[i].node_type = node_type}
\* the rectangle a positioned node occupies
RectangleOf(node) ==
  [row |-> node.row[1], col |-> node.col[1], rowspan |-> node.rowspan,
   colspan |-> node.colspan]
\* the Panels of node are one per label of the code, each on its label's rectangle
PanelsMatch(node, code) ==
  /\ \A i \in ChildrenOfType(node, "PANEL") :
       /\ Len(node.children[i].id) = 1
       /\ node.children[i].id[1] \in PanelLabelsOf(code)
  /\ \A label \in PanelLabelsOf(code) :
       /\ Cardinality({i \in ChildrenOfType(node, "PANEL") :
                         node.children[i].id = <<label>>}) = 1
       /\ \A i \in ChildrenOfType(node, "PANEL") :
            node.children[i].id = <<label>>
              => RectangleOf(node.children[i]) = Rectangle(CellsOf(code, label))

(***************************************************************************)
(* Plain grid codes                                                        *)
(***************************************************************************)

\* C1: for every code of labels, '.', spaces and row separators that has a
\* non-blank row and in which each label's cells fill a rectangle, parse
\* returns a tree whose nrows is the number of non-blank rows, whose ncols is
\* the length of the longest stripped row, and whose root holds exactly one
\* Panel per distinct label, on the bounding rectangle of the label's cells
PlainGridParsed ==
  (/\ phase /= "compose"
   /\ CellPositions(layout_code) /= {}
   /\ NonRectangular(layout_code) = {})
  => /\ outcome.error = None
     /\ outcome.tree /= None
     /\ outcome.tree[1].nrows = RowCount(layout_code)
     /\ outcome.tree[1].ncols = LongestRow(layout_code)
     /\ ChildrenOfType(outcome.tree[1].root, "PANEL") = 1..Len(outcome.tree[1].root.children)
     /\ PanelsMatch(outcome.tree[1].root, layout_code)

\* C1 witness: a parsed code of two rows whose Panel spans 2 x 2 cells
\* (such as "aa/aa")
PlainGridSpanning ==
  /\ phase = "parsed"
  /\ NonRectangular(layout_code) = {}
  /\ outcome.tree /= None
  /\ outcome.tree[1].nrows = 2
  /\ \E i \in 1..Len(outcome.tree[1].root.children) :
       /\ outcome.tree[1].root.children[i].rowspan = 2
       /\ outcome.tree[1].root.children[i].colspan = 2

(***************************************************************************)
(* Grid levels of a typed code                                             *)
(***************************************************************************)

\* the cell that the i-th construct of a level stands for when the construct
\* is a section
Marker(i) == <<"#1", "#2", "#3", "#4">>[i]
\* the grid of a level: cells as typed, one cell per section, and the label
\* of every annotated label (an annotation occupies no cell)
LevelCode(parts) ==
  flatten([i \in 1..Len(parts) |->
             IF parts[i].kind = "plain" THEN parts[i].text
             ELSE IF parts[i].kind = "section" THEN <<Marker(i)>>
             ELSE <<parts[i].label>>])
\* the grids of all levels: the level itself, its sections' contents and
\* its nested-grid insets' codes
RECURSIVE LevelsOf(_)
LevelsOf(parts) ==
  {LevelCode(parts)}
    \cup UNION {LevelsOf(parts[i].parts) :
                  i \in {j \in 1..Len(parts) : parts[j].kind \in {"section", "grid_inset"}}}

\* C2: if at some grid level (top-level code, section content, nested-grid
\* inset code) a label's cells do not fill its bounding rectangle, parse
\* raises LayoutSyntaxError naming such a label and returns no tree
NonRectangularRaises ==
  (/\ phase /= "compose"
   /\ \E code \in LevelsOf(typed) : NonRectangular(code) /= {})
  => /\ outcome.tree = None
     /\ outcome.error /= None
     /\ outcome.error[1].type = "LayoutSyntaxError"
     /\ outcome.error[1].kind = "not_rectangle"
     /\ \E code \in LevelsOf(typed) :
          \E label \in NonRectangular(code) : outcome.error[1].args[1] = <<label>>

(***************************************************************************)
(* Serialization                                                           *)
(***************************************************************************)

\* a node and all the nodes below it, in document order
RECURSIVE NodesOf(_)
NodesOf(node) ==
  <<node>> \o flatten([i \in 1..Len(node.children) |-> NodesOf(node.children[i])])
\* the kinds of the nodes of a tree
KindsIn(tree) == {NodesOf(tree.root)[i].node_type : i \in 1..Len(NodesOf(tree.root))}

\* C3: for every tree t that parse returns, LayoutTree.from_dict(t.to_dict())
\* equals t: the same nodes with the same ids, kinds, positions, spans,
\* labels, parents, metadata and children order at every depth, and the same
\* nrows, ncols, ratios, raw_code and version
RoundTrip ==
  phase = "restored"
  => /\ restored /= None
     /\ outcome.tree /= None
     /\ restored[1] = outcome.tree[1]

\* C3 witness: a restored tree that holds sub-panels, insets and validation
\* warnings (such as the tree of "a[i,ii]a{0.10,0.10,0.20,0.20}{0.80,0.80,0.50,0.50}")
RoundTripOfAnnotatedTree ==
  /\ phase = "restored"
  /\ {"PANEL", "SUB_PANEL", "INSET"} \subseteq KindsIn(outcome.tree[1])
  /\ "validation_warnings" \in DOMAIN outcome.tree[1].root.metadata
  /\ restored[1].root.children = outcome.tree[1].root.children

(***************************************************************************)
(* Sections                                                                *)
(***************************************************************************)

\* the Section children of node that have the given id and stand on the
\* given cell with spans 1 x 1
SectionsAt(node, id, cell) ==
  {k \in ChildrenOfType(node, "SECTION") :
     /\ node.children[k].id = id
     /\ node.children[k].row = Some(cell[1])
     /\ node.children[k].col = Some(cell[2])
     /\ node.children[k].rowspan = 1
     /\ node.children[k].colspan = 1}
\* the section node holds the Panels of the grid of its content and records
\* the extent of that grid
HoldsGridOf(section, parts) ==
  /\ PanelsMatch(section, LevelCode(parts))
  /\ section.metadata.nrows = RowCount(LevelCode(parts))
  /\ section.metadata.ncols = LongestRow(LevelCode(parts))

\* C4: a '[name:content]' construct of the outer code yields one Section node
\* in root.children with id = name, on the single cell where the construct
\* stood in the outer grid with rowspan = colspan = 1, whose children are the
\* Panels of the content's own grid and whose metadata nrows/ncols are that
\* grid's extent
SectionYieldsNode ==
  (phase /= "compose" /\ outcome.tree /= None)
  => \A i \in 1..Len(typed) :
       typed[i].kind = "section"
       => \E cell \in CellsOf(LevelCode(typed), Marker(i)) :
            /\ Cardinality(SectionsAt(outcome.tree[1].root, typed[i].name, cell)) = 1
            /\ \A k \in SectionsAt(outcome.tree[1].root, typed[i].name, cell) :
                 HoldsGridOf(outcome.tree[1].root.children[k], typed[i].parts)

\* the Section children of node that have the given id
SectionsNamed(node, id) ==
  {k \in ChildrenOfType(node, "SECTION") : node.children[k].id = id}

\* C5: when the content of a section holds a '[inner:content2]' construct,
\* the outer Section node has a child Section node with id 'inner' whose
\* children are the Panels of content2, and the outer Section's Panels are
\* those of its own grid only: no character of the inner name is a Panel
NestedSectionYieldsNode ==
  (phase /= "compose" /\ outcome.tree /= None)
  => \A i \in 1..Len(typed) : \A j \in 1..Len(typed[i].parts) :
       (typed[i].kind = "section" /\ typed[i].parts[j].kind = "section")
       => /\ SectionsNamed(outcome.tree[1].root, typed[i].name) /= {}
          /\ \A k \in SectionsNamed(outcome.tree[1].root, typed[i].name) :
               /\ PanelsMatch(outcome.tree[1].root.children[k], LevelCode(typed[i].parts))
               /\ \E m \in SectionsNamed(outcome.tree[1].root.children[k],
                                         typed[i].parts[j].name) :
                    PanelsMatch(outcome.tree[1].root.children[k].children[m],
                                LevelCode(typed[i].parts[j].parts))

(***************************************************************************)
(* Sub-panels                                                              *)
(***************************************************************************)

\* the children of a node that have the given kind, in order
ChildrenSeq(node, node_type) ==
  SelectSeq(node.children, LAMBDA child : child.node_type = node_type)
\* the Panel children of node that have the label as id
PanelsNamed(node, label) ==
  {k \in ChildrenOfType(node, "PANEL") : node.children[k].id = <<label>>}
\* the i-th construct is the only bracket annotation of its label at its level
AnnotatedOnce(parts, i) ==
  \A j \in 1..Len(parts) :
    (parts[j].kind \in {"sub_panel_list", "sub_panel_grid"} /\ parts[j].label = parts[i].label)
    => j = i
\* the sub-panels that a Panel holds for the items i1, ..., in
HoldsList(panel, label, items) ==
  /\ Len(ChildrenSeq(panel, "SUB_PANEL")) = Len(items)
  /\ \A n \in 1..Len(items) :
       /\ ChildrenSeq(panel, "SUB_PANEL")[n].id = <<label, ".">> \o items[n]
       /\ ChildrenSeq(panel, "SUB_PANEL")[n].row = Some(0)
       /\ ChildrenSeq(panel, "SUB_PANEL")[n].col = Some(n - 1)
       /\ ChildrenSeq(panel, "SUB_PANEL")[n].rowspan = 1
       /\ ChildrenSeq(panel, "SUB_PANEL")[n].colspan = 1
       /\ ChildrenSeq(panel, "SUB_PANEL")[n].parent = Some(<<label>>)
  /\ "sub_panel_grid" \in DOMAIN panel.metadata
  /\ panel.metadata.sub_panel_grid = [nrows |-> 1, ncols |-> Len(items)]
\* every label of the level that is annotated with a list, and only once,
\* has a Panel under node and each such Panel holds the list's sub-panels
ListsAttached(node, parts) ==
  \A i \in 1..Len(parts) :
    (parts[i].kind = "sub_panel_list" /\ AnnotatedOnce(parts, i))
    => /\ PanelsNamed(node, parts[i].label) /= {}
       /\ \A k \in PanelsNamed(node, parts[i].label) :
            HoldsList(node.children[k], parts[i].label, parts[i].items)

\* C6: a label L annotated 'L[i1,...,in]' has a Panel L with exactly n
\* SubPanel children in item order, the k-th with id 'L.<ik>', row 0, col k,
\* spans 1 x 1 and parent L, and metadata sub_panel_grid 1 x n; the
\* annotation occupies no cell of the grid.  Stated for the labels of the
\* outer code and of the sections' contents.
SubPanelListAttached ==
  (phase /= "compose" /\ outcome.tree /= None)
  => /\ ListsAttached(outcome.tree[1].root, typed)
     /\ (\E i \in 1..Len(typed) : typed[i].kind = "sub_panel_list")
        => /\ outcome.tree[1].nrows = RowCount(LevelCode(typed))
           /\ outcome.tree[1].ncols = LongestRow(LevelCode(typed))
     /\ \A i \in 1..Len(typed) :
          typed[i].kind = "section"
          => \A k \in SectionsNamed(outcome.tree[1].root, typed[i].name) :
               ListsAttached(outcome.tree[1].root.children[k], typed[i].parts)

\* the sub-panels that a Panel holds for the grid shape R x C
HoldsGrid(panel, label, shape) ==
  /\ Len(ChildrenSeq(panel, "SUB_PANEL")) = shape[1] * shape[2]
  /\ \A n \in 1..(shape[1] * shape[2]) :
       /\ ChildrenSeq(panel, "SUB_PANEL")[n].id = <<label, ".">> \o str(n - 1)
       /\ ChildrenSeq(panel, "SUB_PANEL")[n].row = Some((n - 1) \div shape[2])
       /\ ChildrenSeq(panel, "SUB_PANEL")[n].col = Some((n - 1) % shape[2])
  /\ "sub_panel_grid" \in DOMAIN panel.metadata
  /\ panel.metadata.sub_panel_grid = [nrows |-> shape[1], ncols |-> shape[2]]
\* every label of the level that is annotated with a grid shape, and only
\* once, has a Panel under node and each such Panel holds the grid's sub-panels
GridsAttached(node, parts) ==
  \A i \in 1..Len(parts) :
    (parts[i].kind = "sub_panel_grid" /\ AnnotatedOnce(parts, i))
    => /\ PanelsNamed(node, parts[i].label) /= {}
       /\ \A k \in PanelsNamed(node, parts[i].label) :
            HoldsGrid(node.children[k], parts[i].label, parts[i].shape)

\* C7: a label L annotated 'L[RxC]' has a Panel L with exactly R*C SubPanel
\* children with ids 'L.0' ... 'L.(R*C-1)' in index order, the k-th at
\* row k div C and col k mod C, and metadata sub_panel_grid R x C.  Stated
\* for the labels of the outer code and of the sections' contents.
SubPanelGridAttached ==
  (phase /= "compose" /\ outcome.tree /= None)
  => /\ GridsAttached(outcome.tree[1].root, typed)
     /\ \A i \in 1..Len(typed) :
          typed[i].kind = "section"
          => \A k \in SectionsNamed(outcome.tree[1].root, typed[i].name) :
               GridsAttached(outcome.tree[1].root.children[k], typed[i].parts)

(***************************************************************************)
(* Insets                                                                  *)
(***************************************************************************)

\* the insets declared for a label at a level, in the order of the code
Declared(parts, label) ==
  flatten([i \in 1..Len(parts) |->
     IF parts[i].label = label /\ parts[i].kind = "absolute_insets"
     THEN [n \in 1..Len(parts[i].quads) |-> [type |-> "absolute", bounds |-> parts[i].quads[n]]]
     ELSE IF parts[i].label = label /\ parts[i].kind = "grid_inset"
     THEN << [type |-> "grid", bounds |-> <<>>] >>
     ELSE <<>>])
\* the Inset children of the Panel are the declared insets, in that order
HoldsInsets(panel, label, declared) ==
  /\ Len(ChildrenSeq(panel, "INSET")) = Len(declared)
  /\ \A n \in 1..Len(declared) :
       /\ ChildrenSeq(panel, "INSET")[n].id = <<label>> \o chars("_inset_") \o str(n - 1)
       /\ ChildrenSeq(panel, "INSET")[n].metadata.type = declared[n].type
       /\ declared[n].type = "absolute"
          => ChildrenSeq(panel, "INSET")[n].metadata.bounds = declared[n].bounds

\* C8: for every label L of the outer code, Panel L's Inset children are the
\* insets declared for L in the order their annotations occur in the code,
\* over all occurrences of L and both annotation forms; the i-th has id
\* 'L_inset_<i>', and an absolute inset has metadata type 'absolute' and
\* bounds equal to its quadruple
InsetsInDeclarationOrder ==
  (phase /= "compose" /\ outcome.tree /= None)
  => \A i \in 1..Len(typed) :
       typed[i].kind \in {"absolute_insets", "grid_inset"}
       => /\ PanelsNamed(outcome.tree[1].root, typed[i].label) /= {}
          /\ \A k \in PanelsNamed(outcome.tree[1].root, typed[i].label) :
               HoldsInsets(outcome.tree[1].root.children[k], typed[i].label,
                           Declared(typed, typed[i].label))

\* the Inset holds what its nested code describes: the Panels of the code's
\* grid, a Section node per section, and the sub-panels and insets of its
\* annotated labels
HoldsNestedCode(inset, parts) ==
  /\ inset.metadata.type = "grid"
  /\ PanelsMatch(inset, LevelCode(parts))
  /\ ListsAttached(inset, parts)
  /\ GridsAttached(inset, parts)
  /\ \A j \in 1..Len(parts) :
       /\ parts[j].kind = "section"
          => /\ SectionsNamed(inset, parts[j].name) /= {}
             /\ \A m \in SectionsNamed(inset, parts[j].name) :
                  HoldsGridOf(inset.children[m], parts[j].parts)
       /\ parts[j].kind \in {"absolute_insets", "grid_inset"}
          => /\ PanelsNamed(inset, parts[j].label) /= {}
             /\ \A m \in PanelsNamed(inset, parts[j].label) :
                  HoldsInsets(inset.children[m], parts[j].label,
                              Declared(parts, parts[j].label))

\* C9: an 'L<nested-code>' annotation of the outer code yields an Inset child
\* of Panel L with metadata type 'grid' whose children are the nodes of
\* nested-code run through the whole pipeline: the sections, sub-panels and
\* insets written inside nested-code appear inside the Inset subtree
NestedCodeThroughPipeline ==
  (phase /= "compose" /\ outcome.tree /= None)
  => \A i \in 1..Len(typed) :
       typed[i].kind = "grid_inset"
       => /\ PanelsNamed(outcome.tree[1].root, typed[i].label) /= {}
          /\ \A k \in PanelsNamed(outcome.tree[1].root, typed[i].label) :
               \E n \in 1..Len(ChildrenSeq(outcome.tree[1].root.children[k], "INSET")) :
                 HoldsNestedCode(ChildrenSeq(outcome.tree[1].root.children[k], "INSET")[n],
                                 typed[i].parts)

(***************************************************************************)
(* Validation modes                                                        *)
(***************************************************************************)

\* the completed tree of the code: what a parser with validation disabled
\* returns (or the error it raises)
Completed == parse(LayoutCodeParser(FALSE, FALSE), layout_code)
\* the diagnostics of the parser's validator on the completed tree
Diagnostics == validate(parser._validator, Completed.tree[1])
\* a tree without the 'validation_warnings' entry of its root
WithoutWarnings(tree) ==
  [tree EXCEPT !.root.metadata =
     [k \in DOMAIN tree.root.metadata \ {"validation_warnings"} |-> tree.root.metadata[k]]]

Tree == outcome.tree[1]

SharedId(tree) ==
  \E m, n \in 1..Len(nodes_below(tree.root)) :
    m /= n /\ nodes_below(tree.root)[m].id = nodes_below(tree.root)[n].id

\* the diagnostics of the given kinds in a list
OfKinds(errors, kinds) == SelectSeq(errors, LAMBDA e : e.kind \in kinds)

\* C12: validate reports a duplicate-id diagnostic whenever two nodes of the
\* tree share an id, whatever their kinds (Section, Panel, SubPanel, Inset)
DuplicateIdsReported ==
  (phase = "validated" /\ SharedId(Tree))
  => OfKinds(reports[Len(reports)], {"duplicate_id"}) /= <<>>

\* the cells of the half-open rectangle [row, row+rowspan) x [col, col+colspan)
CellsOfPanel(panel) ==
  (panel.row[1]..(panel.row[1] + panel.rowspan - 1))
  \X (panel.col[1]..(panel.col[1] + panel.colspan - 1))

\* the Panels among the children of the root, in order
TopPanels(tree) == SelectSeq(tree.root.children, LAMBDA c : c.node_type = "PANEL")

\* no Panel sits inside a Section: the Panels of the tree are top-level siblings
OnlyTopPanels(tree) ==
  \A i \in 1..Len(tree.root.children) :
    tree.root.children[i].node_type = "SECTION" => tree.root.children[i].children = <<>>

\* one overlap diagnostic for each pair of top-level Panels sharing a cell
IntersectingPairs(panels) ==
  flatten([i \in 1..Len(panels) |->
    flatten([j \in 1..Len(panels) |->
      IF i < j /\ CellsOfPanel(panels[i]) \cap CellsOfPanel(panels[j]) /= {}
      THEN <<diagnostic("overlap", <<panels[i].id, panels[j].id>>)>>
      ELSE <<>>])])

\* C13: for top-level sibling Panels with row and col set, validate emits
\* exactly one overlap diagnostic per unordered pair whose half-open row
\* intervals and col intervals both intersect, and none for any other pair:
\* none for panels that only touch along an edge
OverlapPerIntersectingPair ==
  (phase = "validated" /\ validator.check_overlaps /\ OnlyTopPanels(Tree))
  => OfKinds(reports[Len(reports)], {"overlap"}) = IntersectingPairs(TopPanels(Tree))

\* C13 witness: three top-level Panels have been validated, two of them
\* touching along an edge and the third overlapping both
TouchingAndOverlapping ==
  /\ phase = "validated"
  /\ validator.check_overlaps
  /\ Len(TopPanels(Tree)) = 3
  /\ \E i, j, k \in 1..3 :
       /\ CellsOfPanel(TopPanels(Tree)[i]) = {<<0, 0>>}
       /\ CellsOfPanel(TopPanels(Tree)[j]) = {<<0, 1>>}
       /\ CellsOfPanel(TopPanels(Tree)[k]) = (0..1) \X (0..1)
  /\ Len(OfKinds(reports[Len(reports)], {"overlap"})) = 2

(***************************************************************************)
(* The validator on parsed trees                                           *)
(***************************************************************************)

\* the absolute Insets of a tree, in depth-first order
AbsoluteInsetsOf(tree) ==
  SelectSeq(nodes_below(tree.root),
            LAMBDA n : /\ n.node_type = "INSET"
                       /\ "type" \in DOMAIN n.metadata
                       /\ n.metadata.type = "absolute")

\* 0 <= x, 0 <= y, 0 < w <= 1, 0 < h <= 1, for bounds in hundredths
PlacedAndSized(b) ==
  0 <= b[1] /\ 0 <= b[2] /\ 0 < b[3] /\ b[3] <= 100 /\ 0 < b[4] /\ b[4] <= 100
\* x + w <= 1 and y + h <= 1
EndsInside(b) == b[1] + b[3] <= 100 /\ b[2] + b[4] <= 100

InsetKinds == {"inset_position", "inset_size", "inset_outside"}

\* the quadruples typed into the code, in order
TypedQuads == flatten([i \in 1..Len(typed) |-> typed[i].quads])

\* the code as typed without its inset annotations, and what parse makes of it
BareCode ==
  flatten([i \in 1..Len(typed) |->
             IF typed[i].kind = "absolute_insets" THEN <<typed[i].label>> ELSE typed[i].text])
BareParse == parse(LayoutCodeParser(FALSE, FALSE), BareCode)

\* C14 as stated: validate reports no inset diagnostic if and only if every
\* absolute Inset has 0 <= x, 0 <= y, 0 < w <= 1, 0 < h <= 1, x+w <= 1 and
\* y+h <= 1; bounds that violate only x+w <= 1 / y+h <= 1 produce exactly one
\* inset diagnostic each, and parsing such bounds succeeds (whenever the code
\* parses without the annotation)
InsetBoundsOneDiagnostic ==
  /\ (phase /= "compose"
      /\ \E n \in 1..Len(TypedQuads) :
           PlacedAndSized(TypedQuads[n]) /\ ~EndsInside(TypedQuads[n]))
     => (BareParse.error = None => outcome.error = None)
  /\ phase = "validated"
     => /\ OfKinds(reports[Len(reports)], InsetKinds) = <<>>
           <=> \A n \in 1..Len(AbsoluteInsetsOf(Tree)) :
                 /\ PlacedAndSized(AbsoluteInsetsOf(Tree)[n].metadata.bounds)
                 /\ EndsInside(AbsoluteInsetsOf(Tree)[n].metadata.bounds)
        /\ (\A n \in 1..Len(AbsoluteInsetsOf(Tree)) :
              PlacedAndSized(AbsoluteInsetsOf(Tree)[n].metadata.bounds))
           => Len(OfKinds(reports[Len(reports)], InsetKinds))
              = Len(SelectSeq(AbsoluteInsetsOf(Tree),
                              LAMBDA n : ~EndsInside(n.metadata.bounds)))

\* x <= 1 and y <= 1
StartsInside(b) == b[1] <= 100 /\ b[2] <= 100

\* C14 amended: the same, with exactly one inset diagnostic for bounds that
\* violate only x+w <= 1 / y+h <= 1 and have x <= 1 and y <= 1
InsetBoundsChecked ==
  /\ (phase /= "compose"
      /\ \E n \in 1..Len(TypedQuads) :
           PlacedAndSized(TypedQuads[n]) /\ ~EndsInside(TypedQuads[n]))
     => (BareParse.error = None => outcome.error = None)
  /\ phase = "validated"
     => /\ OfKinds(reports[Len(reports)], InsetKinds) = <<>>
           <=> \A n \in 1..Len(AbsoluteInsetsOf(Tree)) :
                 /\ PlacedAndSized(AbsoluteInsetsOf(Tree)[n].metadata.bounds)
                 /\ EndsInside(AbsoluteInsetsOf(Tree)[n].metadata.bounds)
        /\ (\A n \in 1..Len(AbsoluteInsetsOf(Tree)) :
              /\ PlacedAndSized(AbsoluteInsetsOf(Tree)[n].metadata.bounds)
              /\ StartsInside(AbsoluteInsetsOf(Tree)[n].metadata.bounds))
           => Len(OfKinds(reports[Len(reports)], InsetKinds))
              = Len(SelectSeq(AbsoluteInsetsOf(Tree),
                              LAMBDA n : ~EndsInside(n.metadata.bounds)))

\* C14 witness: the code a{0.80,0.80,0.50,0.50} has been parsed and
\* validated, with the single diagnostic that the inset extends outside
OneDiagnosticForExtent ==
  /\ phase = "validated"
  /\ TypedQuads = << <<80, 80, 50, 50>> >>
  /\ outcome.error = None
  /\ Len(AbsoluteInsetsOf(Tree)) = 1
  /\ AbsoluteInsetsOf(Tree)[1].metadata.bounds = <<80, 80, 50, 50>>
  /\ reports[Len(reports)] = <<diagnostic("inset_outside", <<<<"a">>>>)>>

(***************************************************************************)
(* Grid levels of a parsed tree                                            *)
(***************************************************************************)

\* the grid levels of a tree: the Panels of one grid with the extent of that
\* grid, for the top level, every Section and every nested-grid Inset
LevelsOfTree(tree) ==
  LET nodes == nodes_below(tree.root)
  IN  <<[panels |-> TopPanels(tree), nrows |-> tree.nrows, ncols |-> tree.ncols]>>
      \o flatten([n \in 1..Len(nodes) |->
           IF /\ nodes[n].node_type \in {"SECTION", "INSET"}
              /\ "nrows" \in DOMAIN nodes[n].metadata
           THEN <<[panels |-> SelectSeq(nodes[n].children, LAMBDA c : c.node_type = "PANEL"),
                   nrows |-> nodes[n].metadata.nrows,
                   ncols |-> nodes[n].metadata.ncols]>>
           ELSE <<>>])

\* every Panel of the level spans at least one cell and lies inside the grid,
\* and no two Panels of the level share a cell
WellPlaced(level) ==
  /\ \A i \in 1..Len(level.panels) :
       /\ level.panels[i].row /= None
       /\ level.panels[i].col /= None
       /\ level.panels[i].rowspan >= 1
       /\ level.panels[i].colspan >= 1
       /\ CellsOfPanel(level.panels[i])
            \subseteq (0..(level.nrows - 1)) \X (0..(level.ncols - 1))
  /\ \A i, j \in 1..Len(level.panels) :
       i /= j => CellsOfPanel(level.panels[i]) \cap CellsOfPanel(level.panels[j]) = {}

\* the diagnostics the default parser has left on the root of the returned tree
Warnings(tree) ==
  IF "validation_warnings" \in DOMAIN tree.root.metadata
  THEN tree.root.metadata.validation_warnings
  ELSE <<>>

\* C15: in every tree returned by parse, at every grid level (top level, each
\* Section, each nested-grid Inset) each Panel has rowspan >= 1, colspan >= 1
\* and a rectangle inside the grid it was parsed from, and no two Panels of
\* the same level share a cell; and the tree of a plain grid code carries no
\* overlap diagnostic
PanelsWellPlaced ==
  (phase = "parsed" /\ outcome.tree /= None)
  => /\ LET levels == LevelsOfTree(Tree)
        IN  \A n \in 1..Len(levels) : WellPlaced(levels[n])
     /\ (\A i \in 1..Len(typed) : typed[i].kind = "plain")
        => /\ OfKinds(Warnings(Tree), {"overlap"}) = <<>>
           /\ OfKinds(validate(LayoutTreeValidator(TRUE, TRUE, TRUE), Tree), {"overlap"}) = <<>>

\* C15 witness: parse has returned a tree with a Section of two Panels beside
\* a nested-grid Inset of two Panels
TwoLevelsOfTwoPanels ==
  /\ phase = "parsed"
  /\ outcome.tree /= None
  /\ LET levels == LevelsOfTree(Tree)
     IN  \E m, n \in 2..Len(levels) :
           /\ m /= n
           /\ Len(levels[m].panels) = 2
           /\ Len(levels[n].panels) = 2

(***************************************************************************)
(* Concurrent parse calls                                                  *)
(***************************************************************************)

\* what the call of thread t returns or raises when it runs alone on a parser
\* of its own
Alone(t) == parse(LayoutCodeParser(TRUE, FALSE), calls[t].layout_code)

\* C16: parse calls that run concurrently on one LayoutCodeParser instance
\* and interleave between pipeline stages never share mutable state: each
\* call returns exactly the tree, or raises exactly the error, it produces
\* when run alone
ConcurrentCallsIndependent ==
  \A t \in DOMAIN calls :
    calls[t].pc = "done"
    => /\ calls[t].outcome.error = Alone(t).error
       /\ calls[t].outcome.tree = Alone(t).tree

(***************************************************************************)
(* Rejected codes                                                          *)
(***************************************************************************)

\* the code holds nothing but whitespace and row separators: it is empty, or
\* blank, or every row of it is blank
NoRow(code) == \A p \in 1..Len(code) : isspace(code[p]) \/ code[p] = "/"

\* parse has raised LayoutSyntaxError and returned no tree
SyntaxErrorRaised ==
  /\ outcome.tree = None
  /\ outcome.error /= None
  /\ outcome.error[1].type = "LayoutSyntaxError"

\* C17: parse raises LayoutSyntaxError and returns no tree for every input
\* that is empty, consists only of whitespace, or has no non-blank row after
\* splitting on '/' and newline
NoRowRaises == (phase /= "compose" /\ NoRow(layout_code)) => SyntaxErrorRaised

\* C17 witness: a code of blank rows around a separator has been rejected
\* by the grid parser
BlankRowsRejected ==
  /\ phase = "parsed"
  /\ NoRow(layout_code)
  /\ \E p \in 1..Len(layout_code) : layout_code[p] = "/"
  /\ \E p \in 1..Len(layout_code) : layout_code[p] = " "
  /\ SyntaxErrorRaised
  /\ outcome.error[1].kind = "empty_grid"

\* a fragment of the given kind has been typed
Typed(kind) == \E i \in 1..Len(typed) : typed[i].kind = kind

\* C18: if the code contains a section opener '[name:' whose bracket depth
\* never returns to 0 before the end of the input, parse raises
\* LayoutSyntaxError and returns no tree
UnterminatedSectionRaises ==
  (phase /= "compose" /\ Typed("unterminated_section")) => SyntaxErrorRaised

\* C19: if a label is followed by a bracket annotation whose content is
\* neither a grid-shape token nor a comma list of non-empty items, parse
\* raises LayoutSyntaxError and returns no tree
MalformedBracketRaises ==
  (phase /= "compose" /\ Typed("malformed_bracket") /\ ~Typed("unterminated_section"))
  => SyntaxErrorRaised

\* C20: if a '{x,y,w,h}' inset annotation contains a component that cannot
\* be parsed as a number, parse fails with LayoutSyntaxError, not with any
\* other error kind, and returns no tree
MalformedInsetRaises ==
  (phase /= "compose" /\ Typed("malformed_inset") /\ ~Typed("unterminated_section")
   /\ ~Typed("malformed_bracket"))
  => SyntaxErrorRaised

(***************************************************************************)
(* Descriptors without an owner                                            *)
(***************************************************************************)

\* a sub-panel or inset annotation was typed inside a nested grid for a label
\* that the outer grid does not hold: its descriptor names no node of the tree
\* at the time the descriptors are attached
OrphanTyped ==
  \E i \in 1..Len(typed) :
    /\ typed[i].kind = "grid_inset"
    /\ \E j \in 1..Len(typed[i].parts) :
         /\ typed[i].parts[j].kind \in {"sub_panel_list", "absolute_insets"}
         /\ \A k \in 1..Len(typed) :
              typed[k].kind = "plain"
              => \A q \in 1..Len(typed[k].text) : typed[k].text[q] /= typed[i].parts[j].label

\* C21: when a recorded sub-panel or inset descriptor names a label for
\* which no node exists in the built tree, parse in lenient mode drops the
\* descriptor and returns the tree, and parse in strict mode raises
\* LayoutValidationError
OrphanDroppedOrRaised ==
  (phase = "parsed" /\ parser.validate /\ OrphanTyped /\ Completed.error = None)
  => IF parser.strict_mode
     THEN /\ outcome.tree = None
          /\ outcome.error /= None
          /\ outcome.error[1].type = "LayoutValidationError"
     ELSE /\ outcome.error = None
          /\ outcome.tree /= None
          /\ \A n \in 1..Len(nodes_below(Tree.root)) :
               nodes_below(Tree.root)[n].node_type /= "SUB_PANEL"

(***************************************************************************)
(* Sections beside annotations                                             *)
(***************************************************************************)

\* the names of the sections typed at the top level of the code
TypedSectionNames == {typed[i].name : i \in {k \in 1..Len(typed) : typed[k].kind = "section"}}

\* a sub-panel annotation has been typed before a section
AnnotationBeforeSection ==
  \E i, j \in 1..Len(typed) :
    /\ i < j
    /\ typed[i].kind \in {"sub_panel_list", "sub_panel_grid"}
    /\ typed[j].kind = "section"

\* C22: a '[' is a section opener only if a ':' follows it before any other
\* '[' or ']': a sub-panel annotation that precedes a section in the same
\* code is never absorbed into a section name, so the sections extracted are
\* the sections typed, and in the tree returned every Section carries a typed
\* name and the annotated Panel keeps its sub-panels
AnnotationNotAbsorbed ==
  (phase = "parsed" /\ AnnotationBeforeSection)
  => /\ \A n \in 1..Len(_extract_sections(strip(layout_code)).sections) :
          _extract_sections(strip(layout_code)).sections[n].k \in TypedSectionNames
     /\ outcome.tree /= None
        => /\ \A n \in 1..Len(Tree.root.children) :
                Tree.root.children[n].node_type = "SECTION"
                => Tree.root.children[n].id \in TypedSectionNames
           /\ \A i \in 1..Len(typed) :
                typed[i].kind \in {"sub_panel_list", "sub_panel_grid"}
                => \E n \in 1..Len(Tree.root.children) :
                     /\ Tree.root.children[n].id = <<typed[i].label>>
                     /\ \E m \in 1..Len(Tree.root.children[n].children) :
                          Tree.root.children[n].children[m].node_type = "SUB_PANEL"

\* the overlap diagnostics of the sibling Panels of a tree: of the top-level
\* Panels with each other and of the Panels of each top-level Section with
\* each other
SiblingOverlaps(tree) ==
  LET groups == <<TopPanels(tree)>>
                \o [n \in 1..Len(tree.root.children) |->
                      IF tree.root.children[n].node_type = "SECTION"
                      THEN SelectSeq(tree.root.children[n].children,
                                     LAMBDA c : c.node_type = "PANEL")
                      ELSE <<>>]
  IN  UNION {{IntersectingPairs(groups[g])[n] : n \in 1..Len(IntersectingPairs(groups[g]))} :
               g \in 1..Len(groups)}

\* the code is typed from plain cells and sections of plain cells
SectionsOfPlainGrids ==
  \A i \in 1..Len(typed) :
    \/ typed[i].kind = "plain"
    \/ /\ typed[i].kind = "section"
       /\ \A j \in 1..Len(typed[i].parts) : typed[i].parts[j].kind = "plain"

\* C23: the overlap check compares only sibling Panels: Panels of different
\* Sections, and a Section's Panels versus top-level Panels, are never
\* reported as overlapping, so every overlap diagnostic of a parsed tree
\* names two sibling Panels that share a cell
OverlapOnlyAmongSiblings ==
  (phase = "parsed" /\ outcome.tree /= None /\ SectionsOfPlainGrids)
  => \A n \in 1..Len(OfKinds(Warnings(Tree), {"overlap"})) :
       OfKinds(Warnings(Tree), {"overlap"})[n] \in SiblingOverlaps(Tree)

(***************************************************************************)
(* Sections of one code                                                    *)
(***************************************************************************)

\* the sections typed at the top level of the code, in the order typed
TypedSections == SelectSeq(typed, LAMBDA f : f.kind = "section")
\* the Section nodes of root.children, in the order of root.children
SectionNodes(tree) == SelectSeq(tree.root.children, LAMBDA c : c.node_type = "SECTION")
\* the placeholder characters of a code, in the order they stand in it
PlaceholdersOf(code) == SelectSeq(code, LAMBDA ch : ord(ch) >= 57344)

\* C24: every '[name:content]' of the outer code is replaced by its own
\* placeholder, distinct from the others and mapped to its own name and
\* content, and yields its own Section node with that name and the Panels of
\* that content, the Section nodes standing in root.children in the order
\* of the constructs; also when two sections have the same name
OwnSectionNodes ==
  (phase = "parsed" /\ SectionsOfPlainGrids)
  => /\ LET extracted == _extract_sections(strip(layout_code))
            holders == PlaceholdersOf(extracted.code)
        IN  /\ Len(holders) = Len(TypedSections)
            /\ \A m, n \in 1..Len(holders) : m /= n => holders[m] /= holders[n]
            /\ \A n \in 1..Len(holders) :
                 /\ holders[n] \in DOMAIN extracted.section_map
                 /\ extracted.section_map[holders[n]] = TypedSections[n].name
                 /\ dict_get(extracted.sections, TypedSections[n].name)
                      = text_of(TypedSections[n].parts)
     /\ outcome.tree /= None
        => /\ Len(SectionNodes(Tree)) = Len(TypedSections)
           /\ \A n \in 1..Len(SectionNodes(Tree)) :
                /\ SectionNodes(Tree)[n].id = TypedSections[n].name
                /\ HoldsGridOf(SectionNodes(Tree)[n], TypedSections[n].parts)

(***************************************************************************)
(* The owner of a descriptor                                               *)
(***************************************************************************)

\* the code is typed from plain cells and nested-grid insets of plain cells
InsetsOfPlainGrids ==
  \A i \in 1..Len(typed) :
    \/ typed[i].kind = "plain"
    \/ /\ typed[i].kind = "grid_inset"
       /\ \A j \in 1..Len(typed[i].parts) : typed[i].parts[j].kind = "plain"

\* the nodes of the tree that stand inside an Inset of a top-level node
NodesInsideInsets(tree) ==
  flatten([k \in 1..Len(tree.root.children) |->
    flatten([m \in 1..Len(tree.root.children[k].children) |->
               nodes_below(tree.root.children[k].children[m])])])

\* C25: a descriptor recorded for label L at one grid level is attached to
\* the Panel L of that level and to no other node with id L: when the outer
\* code annotates labels with nested grids of plain cells, every top-level
\* Panel holds as many Insets as the outer code declares for its label, and
\* no Panel inside a nested grid holds an Inset or a SubPanel
AttachedAtOwnLevel ==
  (phase = "parsed" /\ outcome.tree /= None /\ InsetsOfPlainGrids)
  => /\ \A k \in 1..Len(TopPanels(Tree)) :
          Len(ChildrenSeq(TopPanels(Tree)[k], "INSET"))
            = Len(Declared(typed, TopPanels(Tree)[k].id[1]))
     /\ \A n \in 1..Len(NodesInsideInsets(Tree)) :
          /\ ChildrenSeq(NodesInsideInsets(Tree)[n], "INSET") = <<>>
          /\ ChildrenSeq(NodesInsideInsets(Tree)[n], "SUB_PANEL") = <<>>

(***************************************************************************)
(* The order and the accumulation of the checks                            *)
(***************************************************************************)

\* the place of a diagnostic's check among the checks of validate
CheckRank(kind) ==
  CASE kind = "no_panels" -> 1
    [] kind = "invalid_dimensions" -> 2
    [] kind = "duplicate_id" -> 3
    [] kind = "overlap" -> 4
    [] kind = "unassigned_cells" -> 5
    [] kind \in {"sub_panels_overflow", "sub_panels_overlap"} -> 6
    [] OTHER -> 7
\* the diagnostics stand in the order of their checks
InCheckOrder(errors) ==
  \A m, n \in 1..Len(errors) :
    m < n => CheckRank(errors[m].kind) <= CheckRank(errors[n].kind)

\* the Panels of a tree at any depth, in depth-first order
PanelsOf(tree) == SelectSeq(nodes_below(tree.root), LAMBDA n : n.node_type = "PANEL")
\* two of the Panels carry the same id
SharedPanelId(panels) ==
  \E m, n \in 1..Len(panels) : m /= n /\ panels[m].id = panels[n].id
\* a cell of the nrows x ncols grid lies in no Panel's rectangle
UncoveredCell(tree, panels) ==
  \E cell \in (0..(tree.nrows - 1)) \X (0..(tree.ncols - 1)) :
    \A n \in 1..Len(panels) : cell \notin CellsOfPanel(panels[n])
\* two of the SubPanels stand on the same position
Collide(sub_panels) ==
  \E i, j \in 1..Len(sub_panels) :
    i /= j /\ sub_panels[i].row = sub_panels[j].row /\ sub_panels[i].col = sub_panels[j].col
\* a Panel holds two SubPanels on the same position
SubPanelsCollide(panels) ==
  \E n \in 1..Len(panels) : Collide(ChildrenSeq(panels[n], "SUB_PANEL"))
\* one of the Insets is absolute and misplaced, missized or ends outside
OutOfBounds(insets) ==
  \E i \in 1..Len(insets) :
    /\ "bounds" \in DOMAIN insets[i].metadata
    /\ ~PlacedAndSized(insets[i].metadata.bounds) \/ ~EndsInside(insets[i].metadata.bounds)
\* a Panel holds an absolute Inset that is misplaced, missized or ends outside
InsetOutOfBounds(panels) ==
  \E n \in 1..Len(panels) : OutOfBounds(ChildrenSeq(panels[n], "INSET"))

StructureReported ==
  phase = "validated"
  => /\ PanelsOf(Tree) = <<>>
        => OfKinds(reports[Len(reports)], {"no_panels"}) /= <<>>
     /\ (Tree.nrows <= 0 \/ Tree.ncols <= 0)
        => OfKinds(reports[Len(reports)], {"invalid_dimensions"}) /= <<>>

(***************************************************************************)
(* The gap check                                                           *)
(***************************************************************************)

\* the cells of the grid that a top-level Panel or Section of the tree occupies
OccupiedCells(tree) ==
  UNION {CellsOfPanel(tree.root.children[k]) :
           k \in {i \in 1..Len(tree.root.children) :
                    /\ tree.root.children[i].node_type \in {"PANEL", "SECTION"}
                    /\ tree.root.children[i].row /= None}}
\* the cells that the gap diagnostics of a list name
ReportedCells(errors) ==
  UNION {{errors[n].args[i] : i \in 1..Len(errors[n].args)} :
           n \in {m \in 1..Len(errors) : errors[m].kind = "unassigned_cells"}}

\* no two sections typed at the top level carry the same name
NamedApart ==
  \A i, j \in 1..Len(TypedSections) : i /= j => TypedSections[i].name /= TypedSections[j].name

\* C28: with the gap check off (the default) validate emits no gap
\* diagnostic; with check_gaps enabled it reports every cell of the
\* nrows x ncols grid left unmarked and no cell that a top-level Panel or
\* Section occupies (for codes whose sections carry different names)
GapsAreFreeCells ==
  (phase = "validated" /\ NamedApart)
  => LET reported == ReportedCells(reports[Len(reports)])
         occupied == OccupiedCells(Tree)
     IN  /\ ~validator.check_gaps => reported = {}
         /\ validator.check_gaps
            => \A cell \in (0..(Tree.nrows - 1)) \X (0..(Tree.ncols - 1)) :
                 cell_text(cell[1], cell[2]) \in reported <=> cell \notin occupied

(***************************************************************************)
(* The dictionary handed to from_dict                                      *)
(***************************************************************************)

\* C29: LayoutTree.from_dict leaves its input dictionary unchanged: after the
\* call the dictionary still equals what to_dict returned, at every depth,
\* so deserializing it a second time yields a tree equal to the first, with
\* all children present
FromDictKeepsInput ==
  phase = "restored"
  => /\ data[1] = LayoutTree_to_dict(outcome.tree[1])
     /\ LayoutTree_from_dict(data[1]) = restored[1]
     /\ Len(LayoutTree_from_dict(data[1]).root.children) = Len(outcome.tree[1].root.children)

(***************************************************************************)
(* Sequential parse calls                                                  *)
(***************************************************************************)

\* what a fresh instance of the parser's mode returns or raises for the code
Fresh == parse(LayoutCodeParser(parser.validate, parser.strict_mode), layout_code)

\* the instance keeps no node and no tree between calls: its context holds
\* the empty maps and the counter of the reset and a map from placeholders
\* to section names
KeepsNoNode(self) ==
  /\ DOMAIN self._parse_context
       \subseteq {"sections", "sub_panels", "insets", "panel_counter", "section_map"}
  /\ "sections" \in DOMAIN self._parse_context
     => /\ self._parse_context.sections = EmptyDict
        /\ self._parse_context.sub_panels = EmptyDict
        /\ self._parse_context.insets = EmptyDict
        /\ self._parse_context.panel_counter = 0
  /\ "section_map" \in DOMAIN self._parse_context
     => \A ch \in DOMAIN self._parse_context.section_map :
          \A i \in 1..Len(self._parse_context.section_map[ch]) :
            self._parse_context.section_map[ch][i] \in Letters \cup Digits

\* C30: after any sequence of earlier parse calls on one instance, returned
\* or raised, parse(c) returns a tree equal to the tree a fresh instance
\* returns for c, or raises the same error; and no node of an earlier tree
\* can be in the tree returned, the instance keeping no node between calls
SequentialCallsIndependent ==
  phase = "parsed"
  => /\ outcome.error = Fresh.error
     /\ outcome.tree = Fresh.tree
     /\ KeepsNoNode(parser)

\* C30 witness: the instance returned a tree with a Section for an earlier
\* code and has now returned a tree for a code with a Section of another name
SecondSectionAfterFirst ==
  /\ phase = "parsed"
  /\ Len(calls) = 1
  /\ calls[1].outcome.tree /= None
  /\ SectionNodes(calls[1].outcome.tree[1]) /= <<>>
  /\ outcome.tree /= None
  /\ SectionNodes(Tree) /= <<>>
  /\ SectionNodes(Tree)[1].id /= SectionNodes(calls[1].outcome.tree[1])[1].id

====
